---- MODULE Spec2Model ----
(***************************************************************************)
(* Scorecard: flag submission (ScoreCardSubmit.py), score tally            *)
(* (ScoreCardTally.py), the S3 key-value table (S3KeyValueStore.py) and     *)
(* the X-Ray trace chain (XrayChain.py).                                   *)
(*                                                                         *)
(* Python values are tagged records: [int |-> n], [str |-> <<chars>>],     *)
(* [float |-> n]; a dict is a function whose DOMAIN is its key set.  Time  *)
(* is an integer number of clock ticks; successive calls of time.time()    *)
(* inside one handler return the same tick.                                *)
(***************************************************************************)
EXTENDS Integers, Sequences, FiniteSets, TLC

VARIABLES
    now,                \* the wall clock, time.time()
    KeyValueBackend,    \* the deployment's backend selector, sent in every event
    flagsTable,         \* the DynamoDB flags table: a set of flag items
    ddbScores,          \* the DynamoDB scores table: a set of items
    s3Objects,          \* the S3 bucket: a set of [Key, Body] objects
    SubmitSCORES_TABLE, \* ScoreCardSubmit.SCORES_TABLE (None until initialised)
    SubmitFLAGS_DATA,   \* ScoreCardSubmit.FLAGS_DATA
    TallySCORES_TABLE,  \* ScoreCardTally.SCORES_TABLE
    TallyFLAGS_DATA,    \* ScoreCardTally.FLAGS_DATA
    TEAM_SCORE_CACHE,   \* ScoreCardTally.TEAM_SCORE_CACHE
    last,               \* the last request handled and its outcome
    requests,           \* number of requests handled so far
    threads,            \* the invocations in progress, one per worker thread
    history,            \* what the invocations did so far (not program state)
    xray                \* the XrayChain.Chain objects and their threads

vars == <<now, KeyValueBackend, flagsTable, ddbScores, s3Objects,
          SubmitSCORES_TABLE, SubmitFLAGS_DATA, TallySCORES_TABLE,
          TallyFLAGS_DATA, TEAM_SCORE_CACHE, last, requests, threads, history,
          xray>>

----------------------------------------------------------------------------
(* Bounds *)

MaxTime == 2
MaxRequests == 3
MaxAnyRequests == 2
MaxCacheRequests == 3
MaxBackendRequests == 3
MaxFlagRequests == 3
MaxFollowRequests == 4
MaxKeyRequests == 3
MaxInvocations == 2
MaxTallyRequests == 3
MaxThreadTime == 1
MaxChains == 3
MaxCalls == 5
MaxSegments == 3
Backlog == 2

----------------------------------------------------------------------------
(* Python values *)

None == [none |-> TRUE]
Absent == [absent |-> TRUE]
PyInt(n) == [int |-> n]
PyStr(s) == [str |-> s]
PyFloat(x) == [float |-> x]

EmptyDict == <<>>

IsInt(v) == "int" \in DOMAIN v
IsStr(v) == "str" \in DOMAIN v

DigitChars == <<"0", "1", "2", "3", "4", "5", "6", "7", "8", "9">>

IsDigit(c) == \E i \in 1..10 : DigitChars[i] = c

DigitOf(c) == (CHOOSE i \in 1..10 : DigitChars[i] = c) - 1

RECURSIVE LStrip(_)
LStrip(s) == IF s # <<>> /\ Head(s) = " " THEN LStrip(Tail(s)) ELSE s

RECURSIVE RStrip(_)
RStrip(s) ==
    IF s # <<>> /\ s[Len(s)] = " " THEN RStrip(SubSeq(s, 1, Len(s) - 1)) ELSE s

RECURSIVE DigitsValue(_)
DigitsValue(s) ==
    IF s = <<>> THEN 0
    ELSE 10 * DigitsValue(SubSeq(s, 1, Len(s) - 1)) + DigitOf(s[Len(s)])

\* int(s) that takes no string at all
IntOfStringRejects(s) == [exc |-> "ValueError"]

\* int(s) for a string s: surrounding blanks are stripped, one sign is
\* allowed, the rest must be a non-empty run of decimal digits.
IntOfString(s) ==
    LET t == RStrip(LStrip(s))
        signed == t # <<>> /\ Head(t) \in {"+", "-"}
        body == IF signed THEN Tail(t) ELSE t
        wellFormed == body # <<>> /\ \A i \in 1..Len(body) : IsDigit(body[i])
    IN  IF ~wellFormed THEN [exc |-> "ValueError"]
        ELSE IF signed /\ Head(t) = "-" THEN PyInt(0 - DigitsValue(body))
        ELSE PyInt(DigitsValue(body))

\* int(d[key]) for a dict d
IntOfKey(d, key) ==
    IF key \notin DOMAIN d THEN [exc |-> "KeyError"]
    ELSE IF IsInt(d[key]) THEN d[key]
    ELSE IF IsStr(d[key]) THEN IntOfString(d[key].str)
    ELSE [exc |-> "TypeError"]

RECURSIVE NatDigits(_)
NatDigits(n) ==
    IF n < 10 THEN <<DigitChars[n + 1]>>
    ELSE NatDigits(n \div 10) \o <<DigitChars[(n % 10) + 1]>>

\* str(v)
StrOf(v) ==
    IF IsStr(v) THEN v.str
    ELSE IF IsInt(v) THEN
        (IF v.int < 0 THEN <<"-">> \o NatDigits(0 - v.int) ELSE NatDigits(v.int))
    ELSE <<"N", "o", "n", "e">>

\* float(d[key]), as used inside `try: ... except: pass`
FloatOfKey(d, key) ==
    IF key \notin DOMAIN d THEN [exc |-> "KeyError"]
    ELSE IF IsInt(d[key]) THEN PyFloat(d[key].int)
    ELSE IF IsStr(d[key]) THEN
        (LET r == IntOfString(d[key].str)
         IN  IF IsInt(r) THEN PyFloat(r.int) ELSE [exc |-> "ValueError"])
    ELSE [exc |-> "TypeError"]

Raised(r) == "exc" \in DOMAIN r

----------------------------------------------------------------------------
(* S3KeyValueStore.Table *)

\* The key names in use, in the order sorted() and sort_keys=True put them.
KeyOrder == <<"auth_key", "flag", "last_seen", "team">>

\* A Python list, and isinstance(v, dict)
PyList(s) == [list |-> s]
IsDict(v) ==
    DOMAIN v \cap {"int", "str", "float", "none", "absent", "list"} = {}

\* prefix.strip('/')
RECURSIVE StripSlashes(_)
StripSlashes(s) ==
    IF s # <<>> /\ Head(s) = "/" THEN StripSlashes(Tail(s))
    ELSE IF s # <<>> /\ s[Len(s)] = "/"
    THEN StripSlashes(SubSeq(s, 1, Len(s) - 1))
    ELSE s

\* The buckets that exist; s3Objects is the content of the one that does.
ExistingBuckets == {"bucket"}

\* Table.__init__(bucket, prefix, keys)
S3Table(bucket, prefix, keys) ==
    [kind |-> "S3", bucket |-> bucket, prefix |-> StripSlashes(prefix),
     keys |-> keys]

\* ddb_resource.Table(name)
DynamoDBTable == [kind |-> "DynamoDB"]

\* dict([(k, item[k]) for k in self.keys]), or dict() on KeyError
ItemKey(self, item) ==
    IF self.keys \subseteq DOMAIN item
    THEN [k \in self.keys |-> item[k]]
    ELSE EmptyDict

\* json.dumps of a dictionary whose numbers print like its strings
JsonDumpsUnquoted(d) ==
    LET Present(k) == k \in DOMAIN d
        sorted == SelectSeq(KeyOrder, Present)
    IN  [n \in 1..Len(sorted) |-> <<sorted[n], StrOf(d[sorted[n]])>>]

\* json.dumps(item_key, sort_keys=True): the members in sorted key order,
\* each value in its JSON form (a number and a string never print alike).
JsonDumps(d) ==
    LET Present(k) == k \in DOMAIN d
        sorted == SelectSeq(KeyOrder, Present)
    IN  [n \in 1..Len(sorted) |-> <<sorted[n], d[sorted[n]]>>]

\* hashlib.sha256(text).hexdigest(), taken to be collision free
Sha256Hex(text) == [sha256 |-> text]

\* The object name taken from the whole item, value fields included
ObjectKeyOfWholeItem(self, item) == Sha256Hex(JsonDumps(item))

\* object_key: the digest of the item's key fields
ObjectKey(self, item) == Sha256Hex(JsonDumps(ItemKey(self, item)))

\* The object name without the table's prefix
ObjectNameNoPrefix(self, item) == <<"/", ObjectKey(self, item)>>

\* self.prefix + '/' + object_key; a hex digest holds no '/', so the name
\* ends with the separator and the digest.
ObjectName(self, item) == self.prefix \o <<"/", ObjectKey(self, item)>>

\* cPickle.dumps / cPickle.loads
PickleDumps(item) == [pickle |-> item]
PickleLoads(body) == body.pickle

\* client.put_object(Bucket, Key, Body): the object of that name is replaced
PutObject(bucket, objects, key, body) ==
    IF bucket \notin ExistingBuckets
    THEN [exc |-> "ClientError", Code |-> "NoSuchBucket", objects |-> objects]
    ELSE [objects |->
            {o \in objects : o.Key # key} \cup {[Key |-> key, Body |-> body]}]

\* client.get_object(Bucket, Key)
GetObject(bucket, objects, key) ==
    IF bucket \notin ExistingBuckets
    THEN [exc |-> "ClientError", Code |-> "NoSuchBucket"]
    ELSE IF \A o \in objects : o.Key # key
    THEN [exc |-> "ClientError", Code |-> "NoSuchKey"]
    ELSE [Body |-> (CHOOSE o \in objects : o.Key = key).Body]

\* put_item that hands whatever it is given to the bucket
TablePutItemUnchecked(self, objects, kwargs) ==
    LET item == IF "Item" \in DOMAIN kwargs THEN kwargs["Item"] ELSE None
        name == self.prefix \o <<"/", Sha256Hex(item)>>
        put  == PutObject(self.bucket, objects, name, PickleDumps(item))
    IN  IF Raised(put)
        THEN [exc |-> put.exc, Code |-> put.Code, objects |-> objects,
              calls |-> <<[op |-> "put_object", Key |-> name]>>]
        ELSE [ret |-> EmptyDict, objects |-> put.objects,
              calls |-> <<[op |-> "put_object", Key |-> name]>>]

\* Table.put_item(**kwargs) on the bucket contents `objects`: what it returns
\* or raises, the bucket afterwards and the backend calls it made
TablePutItem(self, objects, kwargs) ==
    IF "Item" \notin DOMAIN kwargs
    THEN [exc |-> "KeyError", objects |-> objects, calls |-> <<>>]
    ELSE IF ~IsDict(kwargs["Item"])
    THEN [exc |-> "TypeError", objects |-> objects, calls |-> <<>>]
    ELSE IF DOMAIN ItemKey(self, kwargs["Item"]) # self.keys
    THEN [exc |-> "ValueError", objects |-> objects, calls |-> <<>>]
    ELSE LET name == ObjectName(self, kwargs["Item"])
             put  == PutObject(self.bucket, objects, name,
                               PickleDumps(kwargs["Item"]))
         IN  IF Raised(put)
             THEN [exc |-> put.exc, Code |-> put.Code, objects |-> objects,
                   calls |-> <<[op |-> "put_object", Key |-> name]>>]
             ELSE [ret |-> EmptyDict, objects |-> put.objects,
                   calls |-> <<[op |-> "put_object", Key |-> name]>>]

\* get_item that turns every backend failure into an empty result
TableGetItemSwallowsAll(self, objects, kwargs) ==
    IF "Key" \notin DOMAIN kwargs
    THEN [exc |-> "KeyError", calls |-> <<>>]
    ELSE IF ~IsDict(kwargs["Key"])
    THEN [exc |-> "TypeError", calls |-> <<>>]
    ELSE IF DOMAIN ItemKey(self, kwargs["Key"]) # self.keys
    THEN [exc |-> "ValueError", calls |-> <<>>]
    ELSE LET name == ObjectName(self, kwargs["Key"])
             value_object == GetObject(self.bucket, objects, name)
         IN  [ret |-> IF Raised(value_object) THEN EmptyDict
                      ELSE [Item |-> PickleLoads(value_object.Body)],
              calls |-> <<[op |-> "get_object", Key |-> name]>>]

\* get_item that names the object by every field of the Key it is given
TableGetItemNamesWholeKey(self, objects, kwargs) ==
    IF "Key" \notin DOMAIN kwargs
    THEN [exc |-> "KeyError", calls |-> <<>>]
    ELSE IF ~IsDict(kwargs["Key"])
    THEN [exc |-> "TypeError", calls |-> <<>>]
    ELSE IF DOMAIN ItemKey(self, kwargs["Key"]) # self.keys
    THEN [exc |-> "ValueError", calls |-> <<>>]
    ELSE LET name == self.prefix
                        \o <<"/", ObjectKeyOfWholeItem(self, kwargs["Key"])>>
             value_object == GetObject(self.bucket, objects, name)
         IN  IF Raised(value_object) /\ value_object.Code # "NoSuchKey"
             THEN [exc |-> value_object.exc, Code |-> value_object.Code,
                   calls |-> <<[op |-> "get_object", Key |-> name]>>]
             ELSE [ret |-> IF Raised(value_object) THEN EmptyDict
                           ELSE [Item |-> PickleLoads(value_object.Body)],
                   calls |-> <<[op |-> "get_object", Key |-> name]>>]

\* Table.get_item(**kwargs) on the bucket contents `objects`: what it returns
\* or raises and the backend calls it made
TableGetItem(self, objects, kwargs) ==
    IF "Key" \notin DOMAIN kwargs
    THEN [exc |-> "KeyError", calls |-> <<>>]
    ELSE IF ~IsDict(kwargs["Key"])
    THEN [exc |-> "TypeError", calls |-> <<>>]
    ELSE IF DOMAIN ItemKey(self, kwargs["Key"]) # self.keys
    THEN [exc |-> "ValueError", calls |-> <<>>]
    ELSE LET name == ObjectName(self, kwargs["Key"])
             value_object == GetObject(self.bucket, objects, name)
         IN  IF Raised(value_object) /\ value_object.Code # "NoSuchKey"
             THEN [exc |-> value_object.exc, Code |-> value_object.Code,
                   calls |-> <<[op |-> "get_object", Key |-> name]>>]
             ELSE [ret |-> IF Raised(value_object) THEN EmptyDict
                           ELSE [Item |-> PickleLoads(value_object.Body)],
                   calls |-> <<[op |-> "get_object", Key |-> name]>>]

\* table.put_item(Item=item) as the handlers call it
S3PutItem(self, objects, item) ==
    LET r == TablePutItem(self, objects, ("Item" :> item))
    IN  IF Raised(r) THEN [exc |-> r.exc, objects |-> r.objects]
        ELSE [objects |-> r.objects]

\* table.get_item(Key=key) as the handlers call it
S3GetItem(self, objects, key) ==
    LET r == TableGetItem(self, objects, ("Key" :> key))
    IN  IF Raised(r) THEN [exc |-> r.exc] ELSE r.ret

----------------------------------------------------------------------------
(* The DynamoDB scores table: primary key (team HASH, flag RANGE) *)

\* The table's attribute definitions: team is a number, flag a string; an
\* item whose key attributes are of another type is rejected
KeySchemaAccepts(item) == IsInt(item.team) /\ IsStr(item.flag)

SamePrimaryKey(a, b) == a.team = b.team /\ a.flag = b.flag

\* A put that adds the item and keeps the one of the same primary key
DdbPutItemAppends(items, item) == items \cup {item}

\* Table.put_item(Item=item): the item with that primary key is replaced
DdbPutItem(items, item) ==
    {i \in items : ~SamePrimaryKey(i, item)} \cup {item}

\* Table.get_item(Key=key)
DdbGetItem(items, key) ==
    LET found == {i \in items : SamePrimaryKey(i, key)}
    IN  IF found = {} THEN EmptyDict ELSE [Item |-> CHOOSE i \in found : TRUE]

\* SCORES_TABLE.get_item(Key=key) on whichever backend the handle names
get_item(SCORES_TABLE, key) ==
    IF SCORES_TABLE.kind = "DynamoDB"
    THEN DdbGetItem(ddbScores, key)
    ELSE S3GetItem(SCORES_TABLE, s3Objects, key)

----------------------------------------------------------------------------
(* ScoreCardSubmit *)

DefaultCheckInterval == 30

TeamError == "\"team\" key must exist and be integeral or parsable as integral"
FlagErrorAppended == "\"flag\" key must exist"
FlagErrorAlone == "\"flag key must exist"

\* The SCORES_TABLE handle __module_init builds for an event
NewScoresTable(event) ==
    IF event["KeyValueBackend"] = "DynamoDB"
    THEN DynamoDBTable
    ELSE S3Table(event["S3Bucket"], event["S3Prefix"], {"flag", "team"})

\* The override that only ever lowers the lifetime
SetCheckIntervalKeepsSmallest(FLAGS_DATA, event) ==
    LET lifetime == FloatOfKey(event, "FlagCacheLifetime")
    IN  IF Raised(lifetime) \/ lifetime.float >= FLAGS_DATA["check_interval"]
        THEN FLAGS_DATA
        ELSE [FLAGS_DATA EXCEPT !["check_interval"] = lifetime.float]

\* FLAGS_DATA['check_interval'] = float(event['FlagCacheLifetime']), any
\* exception swallowed
SetCheckInterval(FLAGS_DATA, event) ==
    LET lifetime == FloatOfKey(event, "FlagCacheLifetime")
    IN  IF Raised(lifetime) THEN FLAGS_DATA
        ELSE [FLAGS_DATA EXCEPT !["check_interval"] = lifetime.float]

\* ScoreCardSubmit.__module_init: [SCORES_TABLE, FLAGS_DATA] afterwards
SubmitModuleInit(SCORES_TABLE, FLAGS_DATA, event) ==
    IF SCORES_TABLE = None
    THEN [SCORES_TABLE |-> NewScoresTable(event),
          FLAGS_DATA |-> ("check_time" :> now) @@ ("flags" :> flagsTable)
                            @@ FLAGS_DATA]
    ELSE [SCORES_TABLE |-> SCORES_TABLE, FLAGS_DATA |-> FLAGS_DATA]

\* The refresh test that also fires when exactly one lifetime has passed
FlagDataStaleInclusive(FLAGS_DATA) ==
    now >= FLAGS_DATA["check_time"] + FLAGS_DATA["check_interval"]

\* The refresh test of ScoreCardSubmit.update_flag_data
FlagDataStale(FLAGS_DATA) ==
    now > FLAGS_DATA["check_time"] + FLAGS_DATA["check_interval"]

\* update_flag_data that stamps the time but keeps the old list
update_flag_data_keeps_list(FLAGS_DATA) ==
    IF now > FLAGS_DATA["check_time"] + FLAGS_DATA["check_interval"]
    THEN [FLAGS_DATA EXCEPT !["check_time"] = now]
    ELSE FLAGS_DATA

\* ScoreCardSubmit.update_flag_data: FLAGS_DATA afterwards
update_flag_data(FLAGS_DATA) ==
    IF FlagDataStale(FLAGS_DATA)
    THEN [FLAGS_DATA EXCEPT !["flags"] = flagsTable, !["check_time"] = now]
    ELSE FLAGS_DATA

\* The auth_key check that accepts the key of any listed team
AuthCheckAnyTeam(flag_item, event) ==
    IF "auth_key" \notin DOMAIN event THEN "refused"
    ELSE IF \E t \in DOMAIN flag_item["auth_key"] :
                event["auth_key"] = PyStr(flag_item["auth_key"][t])
         THEN "ok"
    ELSE "refused"

\* The auth_key check of lambda_handler for a flag item that has 'auth_key':
\* "ok", "refused", or the KeyError of the map lookup
AuthCheck(flag_item, event) ==
    IF "auth_key" \notin DOMAIN event THEN "refused"
    ELSE IF StrOf(event["team"]) \notin DOMAIN flag_item["auth_key"]
         THEN "KeyError"
    ELSE IF event["auth_key"] # PyStr(flag_item["auth_key"][StrOf(event["team"])])
         THEN "refused"
    ELSE "ok"

\* The validation block that returns after the first error
SubmitValidateFirstOnly(event) ==
    IF event["team"] = None THEN [ClientError |-> <<TeamError>>]
    ELSE IF "flag" \notin DOMAIN event THEN [ClientError |-> <<FlagErrorAlone>>]
    ELSE EmptyDict

\* The validation block of ScoreCardSubmit.lambda_handler: the response dict
\* after it
SubmitValidate(event) ==
    LET teamErrors == IF event["team"] = None THEN <<TeamError>> ELSE <<>>
    IN  IF "flag" \notin DOMAIN event
        THEN (IF teamErrors # <<>>
              THEN [ClientError |-> Append(teamErrors, FlagErrorAppended)]
              ELSE [ClientError |-> <<FlagErrorAlone>>])
        ELSE (IF teamErrors # <<>>
              THEN [ClientError |-> teamErrors]
              ELSE EmptyDict)

\* The claim step that accepts a claim only for a flag that carries a weight
SubmitClaimNeedsWeight(event, flag_data) ==
    LET flag_items == {flag \in flag_data : flag["flag"] = StrOf(event["flag"])}
        flag_item == CHOOSE flag \in flag_items : TRUE
        auth == IF "auth_key" \in DOMAIN flag_item
                THEN AuthCheck(flag_item, event) ELSE "ok"
    IN  IF flag_items = {} \/ "weight" \notin DOMAIN flag_item
        THEN [res |-> [ValidFlag |-> FALSE], put |-> None]
        ELSE IF auth = "KeyError"
        THEN [res |-> [exc |-> "KeyError"], put |-> None]
        ELSE IF auth = "refused"
        THEN [res |-> [ValidFlag |-> FALSE], put |-> None]
        ELSE [res |-> [ValidFlag |-> TRUE],
              put |-> [team |-> event["team"],
                       flag |-> event["flag"],
                       last_seen |-> now]]

\* The claim step that stores the claim although the auth_key check refused
SubmitClaimWritesRefused(event, flag_data) ==
    LET flag_items == {flag \in flag_data : flag["flag"] = StrOf(event["flag"])}
        flag_item == CHOOSE flag \in flag_items : TRUE
        auth == IF "auth_key" \in DOMAIN flag_item
                THEN AuthCheck(flag_item, event) ELSE "ok"
    IN  IF flag_items = {}
        THEN [res |-> [ValidFlag |-> FALSE], put |-> None]
        ELSE IF auth = "KeyError"
        THEN [res |-> [exc |-> "KeyError"], put |-> None]
        ELSE [res |-> [ValidFlag |-> auth = "ok"],
              put |-> [team |-> event["team"],
                       flag |-> event["flag"],
                       last_seen |-> now]]

\* The claim step that takes a flag no definition names as claimed
SubmitClaimAcceptsUnknown(event, flag_data) ==
    LET flag_items == {flag \in flag_data : flag["flag"] = StrOf(event["flag"])}
        flag_item == CHOOSE flag \in flag_items : TRUE
        auth == IF flag_items # {} /\ "auth_key" \in DOMAIN flag_item
                THEN AuthCheck(flag_item, event) ELSE "ok"
    IN  IF auth = "KeyError"
        THEN [res |-> [exc |-> "KeyError"], put |-> None]
        ELSE IF auth = "refused"
        THEN [res |-> [ValidFlag |-> FALSE], put |-> None]
        ELSE [res |-> [ValidFlag |-> TRUE],
              put |-> [team |-> event["team"],
                       flag |-> event["flag"],
                       last_seen |-> now]]

\* The rest of ScoreCardSubmit.lambda_handler, after validation, for an
\* event whose team was parsed and the current flag list: the response (or
\* the exception raised) and the item put, if any
SubmitClaim(event, flag_data) ==
    LET flag_items == {flag \in flag_data : flag["flag"] = StrOf(event["flag"])}
        flag_item == CHOOSE flag \in flag_items : TRUE
        auth == IF "auth_key" \in DOMAIN flag_item
                THEN AuthCheck(flag_item, event) ELSE "ok"
    IN  IF flag_items = {}
        THEN [res |-> [ValidFlag |-> FALSE], put |-> None]
        ELSE IF auth = "KeyError"
        THEN [res |-> [exc |-> "KeyError"], put |-> None]
        ELSE IF auth = "refused"
        THEN [res |-> [ValidFlag |-> FALSE], put |-> None]
        ELSE [res |-> [ValidFlag |-> TRUE],
              put |-> [team |-> event["team"],
                       flag |-> event["flag"],
                       last_seen |-> now]]

\* int(event['team']) with ValueError and KeyError caught: the event
\* afterwards, or the exception that escapes
ParseTeam(event) ==
    LET team == IntOfKey(event, "team")
    IN  IF Raised(team) /\ team.exc \notin {"ValueError", "KeyError"}
        THEN team
        ELSE ("team" :> (IF Raised(team) THEN None ELSE team)) @@ event

\* ScoreCardSubmit.lambda_handler from the validation on: the response (or
\* the exception raised) and the item put, if any
SubmitRespond(event, flag_data) ==
    IF Raised(event)
    THEN [res |-> event, put |-> None]
    ELSE IF DOMAIN SubmitValidate(event) # {}
    THEN [res |-> SubmitValidate(event), put |-> None]
    ELSE SubmitClaim(event, flag_data)

\* SCORES_TABLE.put_item(Item=item) on whichever backend the handle names:
\* both stores afterwards, and the exception if one is raised
put_item(SCORES_TABLE, item) ==
    IF SCORES_TABLE.kind = "DynamoDB"
    THEN IF KeySchemaAccepts(item)
         THEN [ddb |-> DdbPutItem(ddbScores, item), s3 |-> s3Objects]
         ELSE [ddb |-> ddbScores, s3 |-> s3Objects, exc |-> "ClientError"]
    ELSE IF Raised(S3PutItem(SCORES_TABLE, s3Objects, item))
    THEN [ddb |-> ddbScores, s3 |-> s3Objects,
          exc |-> S3PutItem(SCORES_TABLE, s3Objects, item).exc]
    ELSE [ddb |-> ddbScores,
          s3 |-> S3PutItem(SCORES_TABLE, s3Objects, item).objects]

\* ScoreCardSubmit.lambda_handler(event): one submission request
Submit(event) ==
    \E init \in {SubmitModuleInit(SubmitSCORES_TABLE,
                    SetCheckInterval(SubmitFLAGS_DATA, event), event)} :
    \E FLAGS_DATA \in {update_flag_data(init.FLAGS_DATA)} :
    \E parsed \in {ParseTeam(event)} :
    \E out \in {SubmitRespond(parsed, FLAGS_DATA["flags"])} :
    \E stored \in {IF out.put = None
                   THEN [ddb |-> ddbScores, s3 |-> s3Objects]
                   ELSE put_item(init.SCORES_TABLE, out.put)} :
        /\ requests' = requests + 1
        /\ SubmitSCORES_TABLE' = init.SCORES_TABLE
        /\ SubmitFLAGS_DATA' = FLAGS_DATA
        /\ ddbScores' = stored.ddb
        /\ s3Objects' = stored.s3
        /\ last' = [op |-> "submit", event |-> event,
                    res |-> IF Raised(stored) THEN [exc |-> stored.exc]
                            ELSE out.res,
                    at |-> now,
                    scans |-> (IF SubmitSCORES_TABLE = None THEN 1 ELSE 0)
                              + (IF FlagDataStale(init.FLAGS_DATA) THEN 1 ELSE 0),
                    gets |-> 0,
                    checked |-> IF "check_time" \in DOMAIN SubmitFLAGS_DATA
                                THEN SubmitFLAGS_DATA["check_time"] ELSE -1,
                    puts |-> IF out.put = None THEN 0 ELSE 1,
                    prior |-> IF out.put = None THEN {}
                              ELSE {r.last_seen : r \in
                                      {i \in ddbScores \cup
                                             {PickleLoads(o.Body) : o \in s3Objects} :
                                          SamePrimaryKey(i, out.put)}}]
        /\ UNCHANGED <<now, KeyValueBackend, flagsTable, TallySCORES_TABLE,
                       TallyFLAGS_DATA, TEAM_SCORE_CACHE,
                       threads, history, xray>>

----------------------------------------------------------------------------
(* ScoreCardTally *)

DefaultScoreCacheTimeout == 30

\* The override that takes a lifetime of 0 as "not given"
SetScoreCacheTimeoutIgnoresZero(CACHE, event) ==
    LET lifetime == FloatOfKey(event, "ScoreCacheLifetime")
    IN  IF Raised(lifetime) \/ lifetime.float = 0 THEN CACHE
        ELSE [CACHE EXCEPT !.timeout = lifetime.float]

\* TEAM_SCORE_CACHE['timeout'] = float(event['ScoreCacheLifetime']), any
\* exception swallowed
SetScoreCacheTimeout(CACHE, event) ==
    LET lifetime == FloatOfKey(event, "ScoreCacheLifetime")
    IN  IF Raised(lifetime) THEN CACHE
        ELSE [CACHE EXCEPT !.timeout = lifetime.float]

\* ScoreCardTally.__module_init: [SCORES_TABLE, FLAGS_DATA] afterwards
TallyModuleInit(SCORES_TABLE, FLAGS_DATA, event) ==
    IF SCORES_TABLE = None
    THEN [SCORES_TABLE |-> NewScoresTable(event),
          FLAGS_DATA |-> ("check_time" :> now) @@ ("flags" :> flagsTable)
                            @@ FLAGS_DATA]
    ELSE [SCORES_TABLE |-> SCORES_TABLE, FLAGS_DATA |-> FLAGS_DATA]

\* The refresh test of ScoreCardTally.update_flag_data
TallyFlagDataStale(FLAGS_DATA) ==
    now > FLAGS_DATA["check_time"] + FLAGS_DATA["check_interval"]

\* update_flag_data that stamps the time but keeps the list it holds
tally_update_flag_data_keeps_list(FLAGS_DATA) ==
    IF TallyFlagDataStale(FLAGS_DATA)
    THEN [FLAGS_DATA EXCEPT !["check_time"] = now]
    ELSE FLAGS_DATA

\* update_flag_data that adds the scanned items to the list it holds
tally_update_flag_data_merges(FLAGS_DATA) ==
    IF TallyFlagDataStale(FLAGS_DATA)
    THEN [FLAGS_DATA EXCEPT !["flags"] = @ \cup flagsTable,
                            !["check_time"] = now]
    ELSE FLAGS_DATA

\* ScoreCardTally.update_flag_data: FLAGS_DATA afterwards
tally_update_flag_data(FLAGS_DATA) ==
    IF TallyFlagDataStale(FLAGS_DATA)
    THEN [FLAGS_DATA EXCEPT !["flags"] = flagsTable, !["check_time"] = now]
    ELSE FLAGS_DATA

\* `'yes' not in flag or flag['yes']`
YesFlag(flag) == "yes" \notin DOMAIN flag \/ flag["yes"]

\* The alive test that also drops a claim made exactly one timeout ago
StaleAliveInclusive(last_seen, flag_timeout) == last_seen <= now - flag_timeout

\* A flag that must have been seen within its timeout was not
StaleAlive(last_seen, flag_timeout) == last_seen < now - flag_timeout

\* The dead test that also drops a claim made exactly one timeout ago
FreshDeadInclusive(last_seen, flag_timeout) == last_seen >= now - flag_timeout

\* A flag that must not have been seen within its timeout was
FreshDead(last_seen, flag_timeout) == last_seen > now - flag_timeout

\* The timeout block with a timeout of 1 for flags that have none
ExpiredWithDefaultTimeout(flag, last_seen) ==
    IF "timeout" \in DOMAIN flag
    THEN IF YesFlag(flag)
         THEN last_seen < now - flag["timeout"]
         ELSE last_seen > now - flag["timeout"]
    ELSE last_seen < now - 1

\* The timeout block of score_flag: TRUE where it returns None
Expired(flag, last_seen) ==
    IF "timeout" \in DOMAIN flag
    THEN IF YesFlag(flag)
         THEN StaleAlive(last_seen, flag["timeout"])
         ELSE FreshDead(last_seen, flag["timeout"])
    ELSE FALSE

\* score_flag with a weight of 1 for flags that have none
FlagScoreDefaultWeight(flag, team_flag) ==
    IF "weight" \notin DOMAIN flag THEN PyFloat(1)
    ELSE IF "timeout" \in DOMAIN flag
            /\ IF "yes" \notin DOMAIN flag \/ flag["yes"]
               THEN team_flag["last_seen"] < now - flag["timeout"]
               ELSE team_flag["last_seen"] > now - flag["timeout"]
    THEN None
    ELSE PyFloat(flag["weight"])

\* score_flag once the team's item for the flag was found
FlagScore(flag, team_flag) ==
    IF "weight" \notin DOMAIN flag THEN None
    ELSE IF Expired(flag, team_flag["last_seen"]) THEN None
    ELSE PyFloat(flag["weight"])

\* ScoreCardTally.score_flag(team, flag), reading through SCORES_TABLE:
\* None or the flag's weight as a float
score_flag(SCORES_TABLE, team, flag) ==
    LET item == get_item(SCORES_TABLE,
                         [team |-> team, flag |-> PyStr(flag["flag"])])
    IN  IF "Item" \in DOMAIN item
        THEN FlagScore(flag, item["Item"])
        ELSE None

\* `score = float(flag_score)`: the score of one flag instead of the sum
SumScoresOverwrite(scores) ==
    IF scores = {} THEN 0
    ELSE LET s == CHOOSE x \in scores : x[2] # None \/ \A y \in scores : y[2] = None
         IN  IF s[2] # None THEN s[2].float ELSE 0

RECURSIVE SumScores(_)
\* score += float(flag_score) over the scores that are not None
SumScores(scores) ==
    IF scores = {} THEN 0
    ELSE LET s == CHOOSE x \in scores : TRUE
         IN  (IF s[2] # None THEN s[2].float ELSE 0) + SumScores(scores \ {s})

\* The cache test that never looks at the entry's age
ScoreCacheHitAnyAge(CACHE, team) == team \in DOMAIN CACHE.teams

\* The cache test that still answers from an entry exactly one lifetime old
ScoreCacheHitInclusive(CACHE, team) ==
    /\ team \in DOMAIN CACHE.teams
    /\ CACHE.teams[team].time >= now - CACHE.timeout

\* The cache test of ScoreCardTally.lambda_handler
ScoreCacheHit(CACHE, team) ==
    /\ team \in DOMAIN CACHE.teams
    /\ CACHE.teams[team].time > now - CACHE.timeout

\* The scoring loop of ScoreCardTally.lambda_handler: the local list
\* `scores`, one [flag name, flag_score] entry per flag
ScoreFlags(SCORES_TABLE, team, flag_data) ==
    {<<flag["flag"], score_flag(SCORES_TABLE, team, flag)>> : flag \in flag_data}

\* The handler that stamps the cache entry anew whenever it answers from it
TallyRespondRestampsOnHit(event, CACHE, scores) ==
    IF Raised(event)
    THEN [res |-> event, CACHE |-> CACHE, hit |-> FALSE, scores |-> {}]
    ELSE IF event["team"] = None
    THEN [res |-> [ClientError |-> <<TeamError>>], CACHE |-> CACHE,
          hit |-> FALSE, scores |-> {}]
    ELSE IF ScoreCacheHit(CACHE, event["team"].int)
    THEN [res |-> [Team |-> event["team"],
                   Score |-> PyFloat(CACHE.teams[event["team"].int].score)],
          CACHE |-> [CACHE EXCEPT !.teams[event["team"].int].time = now],
          hit |-> TRUE, scores |-> {}]
    ELSE [res |-> [Team |-> event["team"], Score |-> PyFloat(SumScores(scores))],
          CACHE |-> [CACHE EXCEPT !.teams =
                        (event["team"].int :>
                            [score |-> SumScores(scores), time |-> now])
                        @@ CACHE.teams],
          hit |-> FALSE, scores |-> scores]

\* ScoreCardTally.lambda_handler from the team parse on: the response, the
\* cache afterwards, whether the cache answered, and the local `scores`
TallyRespond(event, CACHE, scores) ==
    IF Raised(event)
    THEN [res |-> event, CACHE |-> CACHE, hit |-> FALSE, scores |-> {}]
    ELSE IF event["team"] = None
    THEN [res |-> [ClientError |-> <<TeamError>>], CACHE |-> CACHE,
          hit |-> FALSE, scores |-> {}]
    ELSE IF ScoreCacheHit(CACHE, event["team"].int)
    THEN [res |-> [Team |-> event["team"],
                   Score |-> PyFloat(CACHE.teams[event["team"].int].score)],
          CACHE |-> CACHE, hit |-> TRUE, scores |-> {}]
    ELSE [res |-> [Team |-> event["team"], Score |-> PyFloat(SumScores(scores))],
          CACHE |-> [CACHE EXCEPT !.teams =
                        (event["team"].int :>
                            [score |-> SumScores(scores), time |-> now])
                        @@ CACHE.teams],
          hit |-> FALSE, scores |-> scores]

\* ScoreCardTally.lambda_handler(event): one tally request
Tally(event) ==
    \E CACHE \in {SetScoreCacheTimeout(TEAM_SCORE_CACHE, event)} :
    \E init \in {TallyModuleInit(TallySCORES_TABLE,
                    SetCheckInterval(TallyFLAGS_DATA, event), event)} :
    \E FLAGS_DATA \in {tally_update_flag_data(init.FLAGS_DATA)} :
    \E parsed \in {ParseTeam(event)} :
    \E scores \in {IF Raised(parsed) \/ parsed["team"] = None THEN {}
                   ELSE ScoreFlags(init.SCORES_TABLE, parsed["team"],
                                   FLAGS_DATA["flags"])} :
    \E out \in {TallyRespond(parsed, CACHE, scores)} :
        /\ requests' = requests + 1
        /\ TallySCORES_TABLE' = init.SCORES_TABLE
        /\ TallyFLAGS_DATA' = FLAGS_DATA
        /\ TEAM_SCORE_CACHE' = out.CACHE
        /\ last' = [op |-> "tally", event |-> event, res |-> out.res,
                    at |-> now, hit |-> out.hit, scores |-> out.scores,
                    scans |-> (IF TallySCORES_TABLE = None THEN 1 ELSE 0)
                              + (IF TallyFlagDataStale(init.FLAGS_DATA)
                                 THEN 1 ELSE 0),
                    gets |-> Cardinality(out.scores),
                    checked |-> IF "check_time" \in DOMAIN TallyFLAGS_DATA
                                THEN TallyFLAGS_DATA["check_time"] ELSE -1,
                    puts |-> 0]
        /\ UNCHANGED <<now, KeyValueBackend, flagsTable, ddbScores, s3Objects,
                       SubmitSCORES_TABLE, SubmitFLAGS_DATA, threads, history,
                       xray>>

\* The clock advances
Tick ==
    /\ now < MaxTime
    /\ now' = now + 1
    /\ UNCHANGED <<KeyValueBackend, flagsTable, ddbScores, s3Objects,
                   SubmitSCORES_TABLE, SubmitFLAGS_DATA, TallySCORES_TABLE,
                   TallyFLAGS_DATA, TEAM_SCORE_CACHE, last, requests,
                   threads, history, xray>>

----------------------------------------------------------------------------
(* The requests and flag definitions explored *)

Field(key, value) == IF value = Absent THEN EmptyDict ELSE (key :> value)

\* The event template of a backend: its selector and the names of its
\* resources, the S3 prefix being two names joined by a slash.
BackendEvent(backend) ==
    IF backend = "S3"
    THEN [KeyValueBackend |-> "S3", S3Bucket |-> "bucket",
          S3Prefix |-> <<"u", "/", "v">>]
    ELSE [KeyValueBackend |-> "DynamoDB", ScoresTable |-> "scores"]

SubmitEvent(team, flag, auth_key) ==
    BackendEvent(KeyValueBackend) @@ Field("team", team)
        @@ Field("flag", flag) @@ Field("auth_key", auth_key)

TallyEvent(team, lifetime) ==
    BackendEvent(KeyValueBackend) @@ Field("team", team)
        @@ Field("ScoreCacheLifetime", lifetime)

\* Flag items: 'flag' always, each other attribute optional
AuthKeyMap == (<<"1">> :> <<"k">>)

FlagItems(name, weight) ==
    {("flag" :> name) @@ w @@ ty :
        w \in {EmptyDict, ("weight" :> weight)},
        ty \in {EmptyDict,
                ("yes" :> FALSE),
                ("timeout" :> 1),
                ("timeout" :> 1) @@ ("yes" :> TRUE),
                ("timeout" :> 1) @@ ("yes" :> FALSE)}}

FlagB == [flag |-> <<"B">>, weight |-> 2]

\* The worker threads of a process, none of them inside a handler, and
\* nothing done yet
Threads == {1, 2}
NoThreads == [t \in Threads |-> [pc |-> "idle"]]
NoHistory ==
    [scans |-> {}, stamps |-> {}, landed |-> <<>>, entry |-> None, logged |-> {}]

\* No Chain object constructed yet, no segment or trace id generated, and
\* nothing received by the X-Ray client
NoChains == [chains |-> <<>>, client |-> <<>>, ids |-> 0, traces |-> 0]

FreshScorecard ==
    /\ now = 0
    /\ KeyValueBackend \in {"DynamoDB", "S3"}
    /\ ddbScores = {}
    /\ s3Objects = {}
    /\ SubmitSCORES_TABLE = None
    /\ SubmitFLAGS_DATA = [check_interval |-> DefaultCheckInterval]
    /\ TallySCORES_TABLE = None
    /\ TallyFLAGS_DATA = [check_interval |-> DefaultCheckInterval]
    /\ TEAM_SCORE_CACHE = [timeout |-> DefaultScoreCacheTimeout, teams |-> <<>>]
    /\ last = [op |-> "none"]
    /\ requests = 0
    /\ threads = NoThreads
    /\ history = NoHistory

Fresh == FreshScorecard /\ xray = NoChains

(* Scoring: well-formed requests of two teams against flags of every kind;  *)
(* team 1 reads its score, with and without the score cache.                *)

SubmitEvents ==
    {SubmitEvent(PyInt(1), f, Absent) : f \in {PyStr(<<"A">>), PyStr(<<"B">>)}}
        \cup {SubmitEvent(PyStr(<<"2">>), PyStr(<<"A">>), Absent)}

TallyEvents == {TallyEvent(PyInt(1), s) : s \in {Absent, PyInt(0)}}

Init ==
    /\ Fresh
    /\ flagsTable \in {{a, FlagB} : a \in FlagItems(<<"A">>, 1)}

Next ==
    \/ requests < MaxRequests /\ \E event \in SubmitEvents : Submit(event)
    \/ requests < MaxRequests /\ \E event \in TallyEvents : Tally(event)
    \/ Tick

Spec == Init /\ [][Next]_vars

(* Requests of every form: team and flag missing, malformed or unknown,     *)
(* against a flag that only team 1 may claim with auth_key "k".             *)

TeamValues ==
    {Absent, None, PyInt(1), PyStr(<<"1">>), PyStr(<<"2">>), PyStr(<<"a">>)}
FlagValues == {Absent, PyStr(<<"A">>), PyStr(<<"B">>), PyStr(<<"Z">>)}
AuthKeyValues == {Absent, PyStr(<<"k">>), PyStr(<<"x">>)}

AnySubmitEvents ==
    {SubmitEvent(t, f, Absent) : t \in TeamValues, f \in FlagValues}
        \cup {SubmitEvent(t, PyStr(<<"A">>), a) :
                t \in TeamValues, a \in AuthKeyValues}

AnyTallyEvents == {TallyEvent(t, PyInt(0)) : t \in TeamValues}

InitRequests ==
    /\ Fresh
    /\ flagsTable = {[flag |-> <<"A">>, weight |-> 1, auth_key |-> AuthKeyMap],
                     FlagB}

NextRequests ==
    \/ requests < MaxAnyRequests /\ \E event \in AnySubmitEvents : Submit(event)
    \/ requests < MaxAnyRequests /\ \E event \in AnyTallyEvents : Tally(event)
    \/ Tick

SpecRequests == InitRequests /\ [][NextRequests]_vars

(* Caches: requests that set the cache lifetimes, against a flags table the  *)
(* administrator adds a flag to while the handlers hold their snapshots.     *)

FlagC == [flag |-> <<"C">>, weight |-> 1]

\* The administrator puts a new flag into the flags table
AddFlag ==
    /\ FlagC \notin flagsTable
    /\ flagsTable' = flagsTable \cup {FlagC}
    /\ UNCHANGED <<now, KeyValueBackend, ddbScores, s3Objects,
                   SubmitSCORES_TABLE, SubmitFLAGS_DATA, TallySCORES_TABLE,
                   TallyFLAGS_DATA, TEAM_SCORE_CACHE, last, requests,
                   threads, history, xray>>

CacheSubmitEvent(team, flag, flag_lifetime) ==
    SubmitEvent(team, flag, Absent) @@ Field("FlagCacheLifetime", flag_lifetime)

CacheTallyEvent(team, score_lifetime, flag_lifetime) ==
    TallyEvent(team, score_lifetime) @@ Field("FlagCacheLifetime", flag_lifetime)

CacheSubmitEvents ==
    {CacheSubmitEvent(PyInt(1), PyStr(<<"B">>), Absent)}
        \cup {CacheSubmitEvent(PyInt(1), PyStr(<<"C">>), f) :
                f \in {PyInt(0), PyStr(<<"1">>)}}

CacheTallyEvents ==
    {CacheTallyEvent(PyInt(1), s, Absent) :
        s \in {Absent, PyInt(0), PyStr(<<"2">>)}}
        \cup {CacheTallyEvent(PyStr(<<"2">>), Absent, PyInt(0)),
              CacheTallyEvent(PyStr(<<"a">>), Absent, Absent)}

InitCaches ==
    /\ Fresh
    /\ flagsTable = {FlagB}

NextCaches ==
    \/ requests < MaxCacheRequests
            /\ \E event \in CacheSubmitEvents : Submit(event)
    \/ requests < MaxCacheRequests
            /\ \E event \in CacheTallyEvents : Tally(event)
    \/ AddFlag
    \/ Tick

SpecCaches == InitCaches /\ [][NextCaches]_vars

(* The store on its own: put_item and get_item called directly, with        *)
(* arguments of every form, on two tables of one bucket and on a table of a *)
(* bucket that does not exist.                                              *)

StoreTables ==
    {S3Table("bucket", <<"/", "p", "/">>, {"flag", "team"}),
     S3Table("bucket", <<"q">>, {"flag", "team"}),
     S3Table("nowhere", <<"p">>, {"flag", "team"})}

StoreRecord(team, flag, last_seen) ==
    Field("team", team) @@ Field("flag", flag) @@ Field("last_seen", last_seen)

StoreItems ==
    {StoreRecord(PyInt(1), PyStr(<<"A">>), PyInt(0)),
     StoreRecord(PyInt(1), PyStr(<<"A">>), PyInt(1)),
     StoreRecord(PyStr(<<"1">>), PyStr(<<"A">>), PyInt(0)),
     StoreRecord(PyInt(1), PyStr(<<"B">>), Absent)}

StoreKeys ==
    {StoreRecord(PyInt(1), PyStr(<<"A">>), Absent),
     StoreRecord(PyInt(1), PyStr(<<"A">>), PyInt(5)),
     StoreRecord(PyStr(<<"1">>), PyStr(<<"A">>), Absent),
     StoreRecord(PyInt(1), PyStr(<<"B">>), Absent)}

\* What is not a complete record: no argument, a list, an empty dictionary,
\* a dictionary with one of the two key fields
Malformed(arg) ==
    {EmptyDict, (arg :> PyList(<<>>)), (arg :> EmptyDict),
     (arg :> StoreRecord(PyInt(1), Absent, Absent)),
     (arg :> StoreRecord(Absent, PyStr(<<"A">>), PyInt(0)))}

StorePutArgs == {("Item" :> i) : i \in StoreItems} \cup Malformed("Item")
StoreGetArgs == {("Key" :> k) : k \in StoreKeys} \cup Malformed("Key")

\* table.put_item(**kwargs)
StorePutItem(self, kwargs) ==
    /\ \E r \in {TablePutItem(self, s3Objects, kwargs)} :
        /\ s3Objects' = r.objects
        /\ last' = [op |-> "put_item", self |-> self, kwargs |-> kwargs,
                    res |-> [f \in DOMAIN r \ {"objects"} |-> r[f]]]
    /\ UNCHANGED <<now, KeyValueBackend, flagsTable, ddbScores,
                   SubmitSCORES_TABLE, SubmitFLAGS_DATA, TallySCORES_TABLE,
                   TallyFLAGS_DATA, TEAM_SCORE_CACHE, requests,
                   threads, history, xray>>

\* table.get_item(**kwargs)
StoreGetItem(self, kwargs) ==
    /\ last' = [op |-> "get_item", self |-> self, kwargs |-> kwargs,
                res |-> TableGetItem(self, s3Objects, kwargs)]
    /\ UNCHANGED <<now, KeyValueBackend, flagsTable, ddbScores, s3Objects,
                   SubmitSCORES_TABLE, SubmitFLAGS_DATA, TallySCORES_TABLE,
                   TallyFLAGS_DATA, TEAM_SCORE_CACHE, requests,
                   threads, history, xray>>

InitStore ==
    /\ Fresh
    /\ KeyValueBackend = "S3"
    /\ flagsTable = {}

NextStore ==
    \/ \E self \in StoreTables, kwargs \in StorePutArgs :
            StorePutItem(self, kwargs)
    \/ \E self \in StoreTables, kwargs \in StoreGetArgs :
            StoreGetItem(self, kwargs)

SpecStore == InitStore /\ [][NextStore]_vars

(* Backends: one handler instance sent events that name now the DynamoDB    *)
(* table, now the S3 bucket, as its claim store.                            *)

BackendSubmitEvents ==
    {BackendEvent(b) @@ Field("team", PyStr(<<"1">>)) @@ Field("flag", f) :
        b \in {"DynamoDB", "S3"}, f \in {PyStr(<<>>), PyStr(<<"B">>)}}

BackendTallyEvents ==
    {BackendEvent(b) @@ Field("team", PyStr(<<"1">>)) : b \in {"DynamoDB", "S3"}}

InitBackends ==
    /\ Fresh
    /\ KeyValueBackend = "DynamoDB"
    /\ flagsTable = {FlagB}

NextBackends ==
    \/ requests < MaxBackendRequests
            /\ \E event \in BackendSubmitEvents : Submit(event)
    \/ requests < MaxBackendRequests
            /\ \E event \in BackendTallyEvents : Tally(event)
    \/ Tick

SpecBackends == InitBackends /\ [][NextBackends]_vars

(* Flag definitions that change: the administrator replaces and deletes the *)
(* definition of flag B while the handlers hold their snapshots.            *)

FlagVersions ==
    {FlagB,
     [flag |-> <<"B">>, weight |-> 3],
     [flag |-> <<"B">>, weight |-> 2, timeout |-> 1],
     [flag |-> <<"B">>, weight |-> 2, timeout |-> 1, yes |-> FALSE]}

\* flags_table.put_item(Item=flag): the definition of that name is replaced
PutFlag(item) ==
    /\ item \notin flagsTable
    /\ flagsTable' = {f \in flagsTable : f["flag"] # item["flag"]} \cup {item}
    /\ UNCHANGED <<now, KeyValueBackend, ddbScores, s3Objects,
                   SubmitSCORES_TABLE, SubmitFLAGS_DATA, TallySCORES_TABLE,
                   TallyFLAGS_DATA, TEAM_SCORE_CACHE, last, requests,
                   threads, history, xray>>

\* The definition of that name is deleted from the flags table
DeleteFlag(name) ==
    /\ \E f \in flagsTable : f["flag"] = name
    /\ flagsTable' = {f \in flagsTable : f["flag"] # name}
    /\ UNCHANGED <<now, KeyValueBackend, ddbScores, s3Objects,
                   SubmitSCORES_TABLE, SubmitFLAGS_DATA, TallySCORES_TABLE,
                   TallyFLAGS_DATA, TEAM_SCORE_CACHE, last, requests,
                   threads, history, xray>>

FlagsSubmitEvents ==
    {CacheSubmitEvent(PyInt(1), PyStr(<<"B">>), f) : f \in {Absent, PyInt(0)}}

FlagsTallyEvents ==
    {CacheTallyEvent(PyInt(1), PyInt(0), f) : f \in {Absent, PyInt(0)}}

InitFlags ==
    /\ Fresh
    /\ KeyValueBackend = "DynamoDB"
    /\ flagsTable = {FlagB}

NextFlags ==
    \/ requests < MaxFlagRequests
            /\ \E event \in FlagsSubmitEvents : Submit(event)
    \/ requests < MaxFlagRequests
            /\ \E event \in FlagsTallyEvents : Tally(event)
    \/ \E item \in FlagVersions : PutFlag(item)
    \/ DeleteFlag(<<"B">>)
    \/ Tick

SpecFlags == InitFlags /\ [][NextFlags]_vars

(* A flag added to the table, claimed, and then looked for in the score:    *)
(* the submission handler and the tally handler each hold a flag cache.     *)

FollowSubmitEvents ==
    {CacheSubmitEvent(PyInt(1), PyStr(<<"C">>), f) : f \in {Absent, PyInt(0)}}

FollowTallyEvents ==
    {CacheTallyEvent(PyInt(1), PyInt(0), f) : f \in {Absent, PyInt(0)}}

InitFollow ==
    /\ Fresh
    /\ KeyValueBackend = "DynamoDB"
    /\ flagsTable = {FlagB}

NextFollow ==
    \/ requests < MaxFollowRequests
            /\ \E event \in FollowSubmitEvents : Submit(event)
    \/ requests < MaxFollowRequests
            /\ \E event \in FollowTallyEvents : Tally(event)
    \/ AddFlag
    \/ Tick

SpecFollow == InitFollow /\ [][NextFollow]_vars

(* Keys: a flag whose name is a numeral, claimed with the flag given as a   *)
(* string and as a number, by a team given as a number and as a string.     *)

FlagSeven == [flag |-> <<"7">>, weight |-> 1]

KeySubmitEvents ==
    {SubmitEvent(t, f, Absent) :
        t \in {PyInt(1), PyStr(<<"1">>)}, f \in {PyStr(<<"7">>), PyInt(7)}}

KeyTallyEvents ==
    {TallyEvent(t, PyInt(0)) : t \in {PyInt(1), PyStr(<<"1">>)}}

InitKeys ==
    /\ Fresh
    /\ flagsTable = {FlagSeven}

NextKeys ==
    \/ requests < MaxKeyRequests
            /\ \E event \in KeySubmitEvents : Submit(event)
    \/ requests < MaxKeyRequests
            /\ \E event \in KeyTallyEvents : Tally(event)
    \/ Tick

SpecKeys == InitKeys /\ [][NextKeys]_vars

----------------------------------------------------------------------------
(* Concurrent invocations: the handlers of ScoreCardSubmit and              *)
(* ScoreCardTally run by the worker threads of one process, one step per    *)
(* read or write of a module global or of a table.                          *)

\* The module globals of the handler h
Module(h) ==
    IF h = "submit"
    THEN [SCORES_TABLE |-> SubmitSCORES_TABLE, FLAGS_DATA |-> SubmitFLAGS_DATA]
    ELSE [SCORES_TABLE |-> TallySCORES_TABLE, FLAGS_DATA |-> TallyFLAGS_DATA]

\* The module globals of h are assigned, those of the other module kept
SetModule(h, SCORES_TABLE, FLAGS_DATA) ==
    /\ SubmitSCORES_TABLE' =
            IF h = "submit" THEN SCORES_TABLE ELSE SubmitSCORES_TABLE
    /\ SubmitFLAGS_DATA' = IF h = "submit" THEN FLAGS_DATA ELSE SubmitFLAGS_DATA
    /\ TallySCORES_TABLE' =
            IF h = "tally" THEN SCORES_TABLE ELSE TallySCORES_TABLE
    /\ TallyFLAGS_DATA' = IF h = "tally" THEN FLAGS_DATA ELSE TallyFLAGS_DATA

\* The thread goes on inside its handler with these locals
Goto(t, pc, locals) ==
    /\ threads' = [threads EXCEPT ![t] =
                      locals @@ [pc |-> pc, h |-> threads[t].h,
                                 event |-> threads[t].event]]
    /\ UNCHANGED <<last, requests>>

\* The handler returns res (or raises it) and the thread is free again
Return(t, res) ==
    /\ threads' = [threads EXCEPT ![t] = [pc |-> "idle"]]
    /\ last' = [op |-> threads[t].h, event |-> threads[t].event, res |-> res,
                at |-> now, thread |-> t]
    /\ UNCHANGED requests

\* The list that replaces the snapshot is the old one extended in place
AssignFlagsInPlace(FLAGS_DATA, scan_result) ==
    ("flags" :> (IF "flags" \in DOMAIN FLAGS_DATA
                 THEN FLAGS_DATA["flags"] \cup scan_result
                 ELSE scan_result)) @@ FLAGS_DATA

\* FLAGS_DATA['flags'] = <the list a scan returned>: the reference is
\* rebound, the list held before is not touched
AssignFlags(FLAGS_DATA, scan_result) == ("flags" :> scan_result) @@ FLAGS_DATA

\* FLAGS_DATA['check_time'] = time.time()
AssignCheckTime(FLAGS_DATA) == ("check_time" :> now) @@ FLAGS_DATA

\* A thread enters lambda_handler: the lifetime overrides of the event
Begin(t, h, event) ==
    /\ threads[t].pc = "idle"
    /\ threads' = [threads EXCEPT ![t] = [pc |-> "init", h |-> h, event |-> event]]
    /\ requests' = requests + 1
    /\ SetModule(h, Module(h).SCORES_TABLE,
                 SetCheckInterval(Module(h).FLAGS_DATA, event))
    /\ TEAM_SCORE_CACHE' = IF h = "tally"
                           THEN SetScoreCacheTimeout(TEAM_SCORE_CACHE, event)
                           ELSE TEAM_SCORE_CACHE
    /\ UNCHANGED <<now, KeyValueBackend, flagsTable, ddbScores, s3Objects,
                   last, history, xray>>

\* __module_init: the test of the table handles and their assignment
InitTables(t) ==
    /\ threads[t].pc = "init"
    /\ IF Module(threads[t].h).SCORES_TABLE = None
       THEN /\ SetModule(threads[t].h, NewScoresTable(threads[t].event),
                         Module(threads[t].h).FLAGS_DATA)
            /\ Goto(t, "prime_time", EmptyDict)
       ELSE /\ Goto(t, "update", EmptyDict)
            /\ UNCHANGED <<SubmitSCORES_TABLE, SubmitFLAGS_DATA,
                           TallySCORES_TABLE, TallyFLAGS_DATA>>
    /\ UNCHANGED <<now, KeyValueBackend, flagsTable, ddbScores, s3Objects,
                   TEAM_SCORE_CACHE, history, xray>>

\* __module_init: FLAGS_DATA['check_time'] = time.time()
PrimeTime(t) ==
    /\ threads[t].pc = "prime_time"
    /\ SetModule(threads[t].h, Module(threads[t].h).SCORES_TABLE,
                 AssignCheckTime(Module(threads[t].h).FLAGS_DATA))
    /\ Goto(t, "prime_scan", EmptyDict)
    /\ UNCHANGED <<now, KeyValueBackend, flagsTable, ddbScores, s3Objects,
                   TEAM_SCORE_CACHE, history, xray>>

\* FLAGS_TABLE.scan(), in __module_init and in update_flag_data: the items
\* of the table at that moment, held by the thread
Scan(t) ==
    /\ threads[t].pc \in {"prime_scan", "scan"}
    /\ Goto(t, IF threads[t].pc = "scan" THEN "set_flags" ELSE "prime_flags",
            [scan_result |-> flagsTable])
    /\ history' = [history EXCEPT !.scans = @ \cup {flagsTable}]
    /\ UNCHANGED <<now, KeyValueBackend, flagsTable, ddbScores, s3Objects,
                   SubmitSCORES_TABLE, SubmitFLAGS_DATA, TallySCORES_TABLE,
                   TallyFLAGS_DATA, TEAM_SCORE_CACHE, xray>>

\* FLAGS_DATA['flags'] = <the scanned items>, in __module_init and in
\* update_flag_data
SetFlags(t) ==
    /\ threads[t].pc \in {"prime_flags", "set_flags"}
    /\ SetModule(threads[t].h, Module(threads[t].h).SCORES_TABLE,
                 AssignFlags(Module(threads[t].h).FLAGS_DATA,
                             threads[t].scan_result))
    /\ Goto(t, IF threads[t].pc = "set_flags" THEN "set_time" ELSE "update",
            EmptyDict)
    /\ UNCHANGED <<now, KeyValueBackend, flagsTable, ddbScores, s3Objects,
                   TEAM_SCORE_CACHE, history, xray>>

\* update_flag_data: the test of the snapshot's age
UpdateTest(t) ==
    /\ threads[t].pc = "update"
    /\ IF "check_time" \notin DOMAIN Module(threads[t].h).FLAGS_DATA
       THEN Return(t, [exc |-> "KeyError"])
       ELSE IF (IF threads[t].h = "submit"
                THEN FlagDataStale(SubmitFLAGS_DATA)
                ELSE TallyFlagDataStale(TallyFLAGS_DATA))
       THEN Goto(t, "scan", EmptyDict)
       ELSE Goto(t, "read", EmptyDict)
    /\ UNCHANGED <<now, KeyValueBackend, flagsTable, ddbScores, s3Objects,
                   SubmitSCORES_TABLE, SubmitFLAGS_DATA, TallySCORES_TABLE,
                   TallyFLAGS_DATA, TEAM_SCORE_CACHE, history, xray>>

\* update_flag_data: FLAGS_DATA['check_time'] = time.time() after a refresh
SetTime(t) ==
    /\ threads[t].pc = "set_time"
    /\ SetModule(threads[t].h, Module(threads[t].h).SCORES_TABLE,
                 AssignCheckTime(Module(threads[t].h).FLAGS_DATA))
    /\ Goto(t, "read", EmptyDict)
    /\ UNCHANGED <<now, KeyValueBackend, flagsTable, ddbScores, s3Objects,
                   TEAM_SCORE_CACHE, history, xray>>

\* update_flag_data: return FLAGS_DATA['flags'], the handler's flag_data
ReadFlags(t) ==
    /\ threads[t].pc = "read"
    /\ IF "flags" \notin DOMAIN Module(threads[t].h).FLAGS_DATA
       THEN Return(t, [exc |-> "KeyError"])
       ELSE Goto(t, "respond",
                 [flag_data |-> Module(threads[t].h).FLAGS_DATA["flags"]])
    /\ UNCHANGED <<now, KeyValueBackend, flagsTable, ddbScores, s3Objects,
                   SubmitSCORES_TABLE, SubmitFLAGS_DATA, TallySCORES_TABLE,
                   TallyFLAGS_DATA, TEAM_SCORE_CACHE, history, xray>>

\* ScoreCardSubmit.lambda_handler from the validation to the building of
\* the item, which takes its timestamp
SubmitBuild(t) ==
    /\ threads[t].pc = "respond" /\ threads[t].h = "submit"
    /\ \E out \in {SubmitRespond(ParseTeam(threads[t].event),
                                 threads[t].flag_data)} :
          IF out.put = None
          THEN Return(t, out.res) /\ UNCHANGED history
          ELSE /\ Goto(t, "put", [item |-> out.put])
               /\ history' = [history EXCEPT
                                 !.stamps = @ \cup {out.put.last_seen}]
    /\ UNCHANGED <<now, KeyValueBackend, flagsTable, ddbScores, s3Objects,
                   SubmitSCORES_TABLE, SubmitFLAGS_DATA, TallySCORES_TABLE,
                   TallyFLAGS_DATA, TEAM_SCORE_CACHE, xray>>

\* ScoreCardSubmit.lambda_handler: SCORES_TABLE.put_item reaches the store
SubmitPut(t) ==
    /\ threads[t].pc = "put"
    /\ \E stored \in {put_item(SubmitSCORES_TABLE, threads[t].item)} :
        /\ ddbScores' = stored.ddb
        /\ s3Objects' = stored.s3
        /\ IF Raised(stored)
           THEN Return(t, [exc |-> stored.exc]) /\ UNCHANGED history
           ELSE /\ Return(t, [ValidFlag |-> TRUE])
                /\ history' = [history EXCEPT
                        !.landed = Append(@, threads[t].item.last_seen)]
    /\ UNCHANGED <<now, KeyValueBackend, flagsTable, SubmitSCORES_TABLE,
                   SubmitFLAGS_DATA, TallySCORES_TABLE, TallyFLAGS_DATA,
                   TEAM_SCORE_CACHE, xray>>

\* ScoreCardTally.lambda_handler from the team parse to the cache test
TallyCacheTest(t) ==
    /\ threads[t].pc = "respond" /\ threads[t].h = "tally"
    /\ \E parsed \in {ParseTeam(threads[t].event)} :
          IF \/ Raised(parsed)
             \/ parsed["team"] = None
             \/ ScoreCacheHit(TEAM_SCORE_CACHE, parsed["team"].int)
          THEN Return(t, TallyRespond(parsed, TEAM_SCORE_CACHE, {}).res)
          ELSE Goto(t, "score", [team |-> parsed["team"],
                                 todo |-> threads[t].flag_data,
                                 scores |-> {},
                                 read |-> [puts |-> Len(history.landed),
                                           at |-> now]])
    /\ UNCHANGED <<now, KeyValueBackend, flagsTable, ddbScores, s3Objects,
                   SubmitSCORES_TABLE, SubmitFLAGS_DATA, TallySCORES_TABLE,
                   TallyFLAGS_DATA, TEAM_SCORE_CACHE, history, xray>>

\* One round of the scoring loop: score_flag reads the team's claim of the
\* next flag
ScoreNext(t) ==
    /\ threads[t].pc = "score" /\ threads[t].todo # {}
    /\ \E flag \in {CHOOSE f \in threads[t].todo : TRUE} :
          Goto(t, "score",
               [team |-> threads[t].team,
                todo |-> threads[t].todo \ {flag},
                scores |-> threads[t].scores \cup
                    {<<flag["flag"],
                       score_flag(TallySCORES_TABLE, threads[t].team, flag)>>},
                read |-> IF threads[t].scores = {}
                         THEN [puts |-> Len(history.landed), at |-> now]
                         ELSE threads[t].read])
    /\ UNCHANGED <<now, KeyValueBackend, flagsTable, ddbScores, s3Objects,
                   SubmitSCORES_TABLE, SubmitFLAGS_DATA, TallySCORES_TABLE,
                   TallyFLAGS_DATA, TEAM_SCORE_CACHE, history, xray>>

\* TEAM_SCORE_CACHE[team] = {'score': score, 'time': time.time()}
StoreScore(CACHE, team, scores) ==
    [CACHE EXCEPT !.teams =
        (team :> [score |-> SumScores(scores), time |-> now]) @@ CACHE.teams]

\* ScoreCardTally.lambda_handler after the loop: the cache entry is written
\* and the score returned
TallyStore(t) ==
    /\ threads[t].pc = "score" /\ threads[t].todo = {}
    /\ TEAM_SCORE_CACHE' = StoreScore(TEAM_SCORE_CACHE, threads[t].team.int,
                                      threads[t].scores)
    /\ history' = [history EXCEPT !.entry = threads[t].read]
    /\ Return(t, [Team |-> threads[t].team,
                  Score |-> PyFloat(SumScores(threads[t].scores))])
    /\ UNCHANGED <<now, KeyValueBackend, flagsTable, ddbScores, s3Objects,
                   SubmitSCORES_TABLE, SubmitFLAGS_DATA, TallySCORES_TABLE,
                   TallyFLAGS_DATA, xray>>

ThreadSubmitEvent == CacheSubmitEvent(PyInt(1), PyStr(<<"B">>), PyInt(0))

ThreadTallyEvent == CacheTallyEvent(PyInt(1), PyInt(0), PyInt(0))

\* The definition of flag B and the one the administrator replaces it with
ThreadFlagVersions == {FlagB, [flag |-> <<"B">>, weight |-> 3]}

InitThreads ==
    /\ Fresh
    /\ KeyValueBackend = "DynamoDB"
    /\ flagsTable = {FlagB}

NextThreads ==
    \/ \E t \in Threads :
          \/ requests < MaxInvocations /\ Begin(t, "submit", ThreadSubmitEvent)
          \/ requests < MaxInvocations /\ Begin(t, "tally", ThreadTallyEvent)
          \/ InitTables(t)
          \/ PrimeTime(t)
          \/ Scan(t)
          \/ SetFlags(t)
          \/ UpdateTest(t)
          \/ SetTime(t)
          \/ ReadFlags(t)
          \/ SubmitBuild(t)
          \/ SubmitPut(t)
          \/ TallyCacheTest(t)
          \/ ScoreNext(t)
          \/ TallyStore(t)
    \/ \E item \in ThreadFlagVersions : PutFlag(item)
    \/ now < MaxThreadTime /\ Tick

SpecThreads == InitThreads /\ [][NextThreads]_vars

(* Concurrent tallies of one team, between them a submission of that team.  *)

NextTallies ==
    \/ \E t \in Threads :
          \/ requests < MaxTallyRequests /\ Begin(t, "tally", ThreadTallyEvent)
          \/ InitTables(t)
          \/ PrimeTime(t)
          \/ Scan(t)
          \/ SetFlags(t)
          \/ UpdateTest(t)
          \/ SetTime(t)
          \/ ReadFlags(t)
          \/ TallyCacheTest(t)
          \/ ScoreNext(t)
          \/ TallyStore(t)
          \/ requests < MaxTallyRequests /\ Begin(t, "submit", ThreadSubmitEvent)
          \/ SubmitBuild(t)
          \/ SubmitPut(t)
    \/ now < MaxThreadTime /\ Tick

SpecTallies == InitThreads /\ [][NextTallies]_vars

----------------------------------------------------------------------------
(* XrayChain.Chain *)

\* The n-th id __segment_id() generates
SegmentId(n) == [segment |-> n]

\* Chain.__init__ given the trace id the chain ends up with: inherited, or
\* generated when none is passed.  `segments` is the content of the list the
\* attribute is bound to and `list` tells the lists it was bound to apart.
NewChain(backlog, parent_id, subsegment, trace_id, mock) ==
    [mock |-> mock, backlog |-> backlog, segments |-> <<>>, list |-> 0,
     trace_id |-> trace_id, last_segment_id |-> None, parent_id |-> parent_id,
     subsegment |-> subsegment, in_progress |-> {}, flush_lock |-> None]

\* A fork that never refuses
ForkUnchecked(self, subsegment, parent_id) ==
    [child |-> NewChain(self.backlog,
                        IF parent_id = None THEN self.last_segment_id
                        ELSE parent_id,
                        subsegment, self.trace_id, self.mock)]

\* A fork that hangs the child under the parent's own parent
ForkUnderGrandparent(self, subsegment, parent_id) ==
    IF subsegment /\ self.last_segment_id = None
    THEN [exc |-> "RuntimeError"]
    ELSE [child |-> NewChain(self.backlog,
                             IF parent_id = None THEN self.parent_id
                             ELSE parent_id,
                             subsegment, self.trace_id, self.mock)]

\* Chain.__fork(subsegment, parent_id): the child, or the exception
Fork(self, subsegment, parent_id) ==
    IF subsegment /\ self.last_segment_id = None
    THEN [exc |-> "RuntimeError"]
    ELSE [child |-> NewChain(self.backlog,
                             IF parent_id = None THEN self.last_segment_id
                             ELSE parent_id,
                             subsegment, self.trace_id, self.mock)]

\* The segment document log() builds; times, name and metadata left out
Segment(self, id, in_progress) ==
    [id |-> id, trace_id |-> self.trace_id, in_progress |-> in_progress]
        @@ (IF self.parent_id # None THEN [parent_id |-> self.parent_id]
            ELSE EmptyDict)
        @@ (IF self.subsegment THEN [type |-> "subsegment"] ELSE EmptyDict)

\* Chain.flush() run alone: the chain and the client afterwards, and the
\* number of segments flushed
FlushChain(self, client) ==
    IF Len(self.segments) = 0
    THEN [self |-> self, client |-> client, ret |-> 0]
    ELSE [self |-> [self EXCEPT !.segments = <<>>, !.list = @ + 1],
          client |-> IF self.mock THEN client
                     ELSE Append(client, self.segments),
          ret |-> Len(self.segments)]

\* Chain.log(start_time, end_time, name, segment_id=segment_id) run alone,
\* id being what __segment_id() generates if it is called
LogChain(self, client, name, in_progress, segment_id, id) ==
    IF name = None
    THEN [exc |-> "ValueError", self |-> self, client |-> client]
    ELSE LET used == IF segment_id # None THEN segment_id ELSE id
             logged == [self EXCEPT
                          !.last_segment_id = used,
                          !.segments = Append(@, Segment(self, used, in_progress))]
         IN  IF Len(logged.segments) >= logged.backlog
             THEN [ret |-> used, self |-> FlushChain(logged, client).self,
                   client |-> FlushChain(logged, client).client]
             ELSE [ret |-> used, self |-> logged, client |-> client]

\* What was done so far, and a segment with that id logged on chain c by
\* the call being made
Logged(c, id) ==
    [history EXCEPT !.logged = @ \cup {[chain |-> c, id |-> id,
                                        call |-> requests + 1]}]

\* One more call made on a chain; the calls leave every variable of the
\* scorecard alone
ChainCalled ==
    /\ requests' = requests + 1
    /\ UNCHANGED <<now, KeyValueBackend, flagsTable, ddbScores, s3Objects,
                   SubmitSCORES_TABLE, SubmitFLAGS_DATA, TallySCORES_TABLE,
                   TallyFLAGS_DATA, TEAM_SCORE_CACHE>>

\* chain = XrayChain.Chain(backlog=backlog, mock=mock): a new root chain
\* with a trace id of its own
Construct(backlog, mock) ==
    /\ xray' = [xray EXCEPT
                  !.chains = Append(@, NewChain(backlog, None, FALSE,
                                                xray.traces + 1, mock)),
                  !.traces = @ + 1]
    /\ last' = [op |-> "Chain", res |-> Len(xray.chains) + 1]
    /\ ChainCalled /\ UNCHANGED <<threads, history>>

\* chain.fork_subsegment(parent_id) and chain.fork_root(parent_id)
ForkCall(c, subsegment, parent_id) ==
    /\ \E out \in {Fork(xray.chains[c], subsegment, parent_id)} :
        /\ xray' = IF Raised(out) THEN xray
                   ELSE [xray EXCEPT !.chains = Append(@, out.child)]
        /\ last' = [op |-> "fork", chain |-> c, subsegment |-> subsegment,
                    parent_id |-> parent_id,
                    res |-> IF Raised(out) THEN out
                            ELSE [child |-> Len(xray.chains) + 1]]
    /\ ChainCalled /\ UNCHANGED <<threads, history>>

\* chain.log(start_time, end_time, name)
LogCall(c, name) ==
    /\ \E out \in {LogChain(xray.chains[c], xray.client, name, FALSE, None,
                            SegmentId(xray.ids + 1))} :
        /\ xray' = [xray EXCEPT !.chains[c] = out.self,
                                !.client = out.client,
                                !.ids = IF Raised(out) THEN @ ELSE @ + 1]
        /\ last' = [op |-> "log", chain |-> c,
                    res |-> IF Raised(out) THEN [exc |-> out.exc]
                            ELSE [id |-> out.ret]]
        /\ history' = IF Raised(out) THEN history ELSE Logged(c, out.ret)
    /\ ChainCalled /\ UNCHANGED threads

\* chain.log_start(name)
LogStartCall(c, name) ==
    /\ \E out \in {LogChain(xray.chains[c], xray.client, name, TRUE, None,
                            SegmentId(xray.ids + 1))} :
        /\ xray' = [xray EXCEPT
                      !.chains[c] =
                          IF Raised(out) THEN out.self
                          ELSE [out.self EXCEPT
                                  !.in_progress = @ \cup {out.ret}],
                      !.client = out.client,
                      !.ids = IF Raised(out) THEN @ ELSE @ + 1]
        /\ last' = [op |-> "log_start", chain |-> c,
                    res |-> IF Raised(out) THEN [exc |-> out.exc]
                            ELSE [id |-> out.ret]]
        /\ history' = IF Raised(out) THEN history ELSE Logged(c, out.ret)
    /\ ChainCalled /\ UNCHANGED threads

\* chain.log_end(segment_id): KeyError unless the segment was started on
\* this chain and not yet ended
LogEndCall(c, segment_id) ==
    /\ IF segment_id \notin xray.chains[c].in_progress
       THEN /\ last' = [op |-> "log_end", chain |-> c,
                        res |-> [exc |-> "KeyError"]]
            /\ UNCHANGED <<xray, history>>
       ELSE \E out \in {LogChain(
                    [xray.chains[c] EXCEPT !.in_progress = @ \ {segment_id}],
                    xray.client, PyStr(<<"n">>), FALSE, segment_id,
                    SegmentId(xray.ids + 1))} :
            /\ xray' = [xray EXCEPT !.chains[c] = out.self,
                                    !.client = out.client]
            /\ last' = [op |-> "log_end", chain |-> c, res |-> [id |-> out.ret]]
            /\ history' = Logged(c, out.ret)
    /\ ChainCalled /\ UNCHANGED threads

\* chain.flush()
FlushCall(c) ==
    /\ \E out \in {FlushChain(xray.chains[c], xray.client)} :
        /\ xray' = [xray EXCEPT !.chains[c] = out.self, !.client = out.client]
        /\ last' = [op |-> "flush", chain |-> c, res |-> [n |-> out.ret]]
    /\ ChainCalled /\ UNCHANGED <<threads, history>>

(* Chains: root chains, their forks and the segments logged on them, one    *)
(* call at a time.                                                          *)

SegmentIds == {SegmentId(n) : n \in 1..MaxSegments}

InitChains ==
    /\ Fresh
    /\ KeyValueBackend = "DynamoDB"
    /\ flagsTable = {}

\* A call on the chain c can be made: the chain exists
Callable(c) == requests < MaxCalls /\ c <= Len(xray.chains)

NextChains ==
    \/ requests < MaxCalls /\ Len(xray.chains) < MaxChains
            /\ \E mock \in BOOLEAN : Construct(Backlog, mock)
    \/ \E c \in 1..MaxChains :
          \/ Callable(c) /\ Len(xray.chains) < MaxChains
                /\ \E subsegment \in BOOLEAN :
                   \E parent_id \in {None, SegmentId(1)} :
                        ForkCall(c, subsegment, parent_id)
          \/ Callable(c) /\ xray.ids < MaxSegments
                /\ \E name \in {None, PyStr(<<"n">>)} : LogCall(c, name)
          \/ Callable(c) /\ xray.ids < MaxSegments
                /\ LogStartCall(c, PyStr(<<"n">>))
          \/ Callable(c) /\ \E segment_id \in SegmentIds : LogEndCall(c, segment_id)
          \/ Callable(c) /\ FlushCall(c)

SpecChains == InitChains /\ [][NextChains]_vars

(* One chain used by the worker threads, which call log and flush; one step *)
(* per read or write of an attribute of the chain.                          *)

\* The chain the threads share
Shared == xray.chains[1]

\* The thread goes on inside log or flush with these locals
Step(t, pc, locals) ==
    /\ threads' = [threads EXCEPT ![t] = locals @@ [pc |-> pc]]
    /\ UNCHANGED <<last, requests>>

\* The call returns res and the thread is free again
Done(t, op, res) ==
    /\ threads' = [threads EXCEPT ![t] = [pc |-> "idle"]]
    /\ last' = [op |-> op, chain |-> 1, res |-> res, thread |-> t]
    /\ UNCHANGED requests

\* Nothing of the scorecard changes
ScorecardKept ==
    UNCHANGED <<now, KeyValueBackend, flagsTable, ddbScores, s3Objects,
                SubmitSCORES_TABLE, SubmitFLAGS_DATA, TallySCORES_TABLE,
                TallyFLAGS_DATA, TEAM_SCORE_CACHE>>

\* A lock anyone can take at any time
AcquirableAlways(flush_lock) == TRUE

\* Lock.acquire() returns only when nobody holds the lock
Acquirable(flush_lock) == flush_lock = None

\* A thread calls chain.log: the segment is built and last_segment_id set
LogEnter(t) ==
    /\ threads[t].pc = "idle"
    /\ threads' = [threads EXCEPT ![t] =
            [pc |-> "load",
             segment |-> Segment(Shared, SegmentId(xray.ids + 1), FALSE)]]
    /\ xray' = [xray EXCEPT !.ids = @ + 1,
                            !.chains[1].last_segment_id = SegmentId(xray.ids + 1)]
    /\ requests' = requests + 1
    /\ ScorecardKept /\ UNCHANGED <<last, history>>

\* log: self.segments is evaluated, the thread holds the list it names
LogLoad(t) ==
    /\ threads[t].pc = "load"
    /\ Step(t, "append", [segment |-> threads[t].segment, list |-> Shared.list])
    /\ ScorecardKept /\ UNCHANGED <<xray, history>>

\* log: .append(json.dumps(segment)) on the list the thread holds, which
\* the chain may have dropped meanwhile
LogAppend(t) ==
    /\ threads[t].pc = "append"
    /\ xray' = IF threads[t].list = Shared.list
               THEN [xray EXCEPT !.chains[1].segments =
                                      Append(@, threads[t].segment)]
               ELSE xray
    /\ history' = Logged(1, threads[t].segment.id)
    /\ Step(t, "backlog", [segment |-> threads[t].segment])
    /\ ScorecardKept

\* log: if len(self.segments) >= self.backlog: self.flush()
LogBacklogTest(t) ==
    /\ threads[t].pc = "backlog"
    /\ IF Len(Shared.segments) >= Shared.backlog
       THEN Step(t, "acquire", [ret |-> threads[t].segment.id])
       ELSE Done(t, "log", [id |-> threads[t].segment.id])
    /\ ScorecardKept /\ UNCHANGED <<xray, history>>

\* A thread calls chain.flush
FlushEnter(t) ==
    /\ threads[t].pc = "idle"
    /\ threads' = [threads EXCEPT ![t] = [pc |-> "acquire", ret |-> None]]
    /\ requests' = requests + 1
    /\ ScorecardKept /\ UNCHANGED <<last, xray, history>>

\* flush: self.flush_lock.acquire()
FlushAcquire(t) ==
    /\ threads[t].pc = "acquire"
    /\ Acquirable(Shared.flush_lock)
    /\ xray' = [xray EXCEPT !.chains[1].flush_lock = [held |-> t]]
    /\ Step(t, "empty", [ret |-> threads[t].ret])
    /\ ScorecardKept /\ UNCHANGED history

\* The value the call of a thread returns: that of flush, or inside log the
\* id of the segment
Returned(t, n) ==
    IF threads[t].ret = None THEN [n |-> n] ELSE [id |-> threads[t].ret]

\* The call a thread is in
Called(t) == IF threads[t].ret = None THEN "flush" ELSE "log"

\* flush: if len(self.segments) == 0: release and return 0
FlushEmptyTest(t) ==
    /\ threads[t].pc = "empty"
    /\ IF Len(Shared.segments) = 0
       THEN /\ xray' = [xray EXCEPT !.chains[1].flush_lock = None]
            /\ Done(t, Called(t), Returned(t, 0))
       ELSE /\ Step(t, "count", [ret |-> threads[t].ret])
            /\ UNCHANGED xray
    /\ ScorecardKept /\ UNCHANGED history

\* flush: nsegments = len(self.segments)
FlushCount(t) ==
    /\ threads[t].pc = "count"
    /\ Step(t, "submit", [ret |-> threads[t].ret,
                          nsegments |-> Len(Shared.segments)])
    /\ ScorecardKept /\ UNCHANGED <<xray, history>>

\* flush: put_trace_segments(TraceSegmentDocuments=self.segments)
FlushSubmit(t) ==
    /\ threads[t].pc = "submit"
    /\ xray' = [xray EXCEPT !.client = IF Shared.mock THEN @
                                       ELSE Append(@, Shared.segments)]
    /\ Step(t, "clear", [ret |-> threads[t].ret,
                         nsegments |-> threads[t].nsegments])
    /\ ScorecardKept /\ UNCHANGED history

\* flush: self.segments = []
FlushClear(t) ==
    /\ threads[t].pc = "clear"
    /\ xray' = [xray EXCEPT !.chains[1].segments = <<>>,
                            !.chains[1].list = @ + 1]
    /\ Step(t, "release", [ret |-> threads[t].ret,
                           nsegments |-> threads[t].nsegments])
    /\ ScorecardKept /\ UNCHANGED history

\* flush: self.flush_lock.release() and return nsegments
FlushRelease(t) ==
    /\ threads[t].pc = "release"
    /\ xray' = [xray EXCEPT !.chains[1].flush_lock = None]
    /\ Done(t, Called(t), Returned(t, threads[t].nsegments))
    /\ ScorecardKept /\ UNCHANGED history

InitLoggers ==
    /\ FreshScorecard
    /\ KeyValueBackend = "DynamoDB"
    /\ flagsTable = {}
    /\ xray = [NoChains EXCEPT
                  !.chains = <<NewChain(Backlog, None, FALSE, 1, FALSE)>>,
                  !.traces = 1]

NextLoggers ==
    \E t \in Threads :
        \/ requests < MaxCalls /\ xray.ids < MaxSegments /\ LogEnter(t)
        \/ LogLoad(t)
        \/ LogAppend(t)
        \/ LogBacklogTest(t)
        \/ requests < MaxCalls /\ FlushEnter(t)
        \/ FlushAcquire(t)
        \/ FlushEmptyTest(t)
        \/ FlushCount(t)
        \/ FlushSubmit(t)
        \/ FlushClear(t)
        \/ FlushRelease(t)

SpecLoggers == InitLoggers /\ [][NextLoggers]_vars

----------------------------------------------------------------------------
(* Vocabulary of the properties *)

\* The claim records stored for a team number and a flag name, as
\* <<place, item>> pairs: one per DynamoDB item, one per S3 object
StoredClaimsIn(ddb, s3, team, flag) ==
    {<<"item", i>> : i \in {x \in ddb : x.team = PyInt(team) /\ x.flag = PyStr(flag)}}
    \cup
    {<<o.Key, PickleLoads(o.Body)>> : o \in
        {x \in s3 : /\ PickleLoads(x.Body).team = PyInt(team)
                    /\ PickleLoads(x.Body).flag = PyStr(flag)}}

StoredClaims(team, flag) == StoredClaimsIn(ddbScores, s3Objects, team, flag)

TeamNumbers == {1, 2}
FlagNames == {<<"A">>, <<"B">>, <<"C">>, <<"Z">>}

DecimalString(str) ==
    /\ str # <<>>
    /\ \A i \in 1..Len(str) :
          str[i] \in {"0", "1", "2", "3", "4", "5", "6", "7", "8", "9"}

\* The request names no team, or one that is neither an integer nor the
\* decimal form of one
TeamBad(event) ==
    \/ "team" \notin DOMAIN event
    \/ ~ \/ IsInt(event["team"])
         \/ IsStr(event["team"]) /\ DecimalString(event["team"].str)

\* The request names no team, or a string that is not the decimal form of an
\* integer
TeamUnparsable(event) ==
    \/ "team" \notin DOMAIN event
    \/ IsStr(event["team"]) /\ ~DecimalString(event["team"].str)

\* The team a well-formed request names: the integer itself, or the one whose
\* decimal form the string is
TeamNumberOf(event) ==
    IF IsInt(event["team"]) THEN event["team"].int
    ELSE CHOOSE n \in 0..99 : NatDigits(n) = event["team"].str

ValidSubmit == last.op = "submit" /\ last.res = [ValidFlag |-> TRUE]

\* The last request was a tally that computed the score afresh
Recomputed == last.op = "tally" /\ "Score" \in DOMAIN last.res /\ ~last.hit

\* What the recomputation recorded for a flag: its weight, or None
ScoreEntries(flag) == {s[2] : s \in {x \in last.scores : x[1] = flag["flag"]}}

Durable(flag) == "weight" \in DOMAIN flag /\ "timeout" \notin DOMAIN flag

RevocableAliveFlag(flag) ==
    /\ "weight" \in DOMAIN flag
    /\ "timeout" \in DOMAIN flag
    /\ ("yes" \in DOMAIN flag => flag["yes"] = TRUE)

RevocableDeadFlag(flag) ==
    /\ "weight" \in DOMAIN flag
    /\ "timeout" \in DOMAIN flag
    /\ "yes" \in DOMAIN flag
    /\ flag["yes"] = FALSE

\* The flag validity predicate, for a team's stored claims at time t
ValidityPredicate(flag, team, t) ==
    /\ "weight" \in DOMAIN flag
    /\ \E c \in StoredClaims(team, flag["flag"]) :
          \/ Durable(flag)
          \/ RevocableAliveFlag(flag) /\ c[2].last_seen >= t - flag["timeout"]
          \/ RevocableDeadFlag(flag) /\ c[2].last_seen <= t - flag["timeout"]

RECURSIVE SumWeights(_)
SumWeights(flags) ==
    IF flags = {} THEN 0
    ELSE LET flag == CHOOSE x \in flags : TRUE
         IN  flag["weight"] + SumWeights(flags \ {flag})

----------------------------------------------------------------------------
(* Properties *)

\* C1: after a successful submit for a (team, flag) pair - also when a record
\* for the pair already existed - the store holds exactly one claim record
\* for the pair and its last_seen is the time of that submission, on the
\* DynamoDB backend and on the S3 backend.
IdempotentUpsert ==
    ValidSubmit =>
        /\ Cardinality(StoredClaims(TeamNumberOf(last.event),
                                    StrOf(last.event["flag"]))) = 1
        /\ \A c \in StoredClaims(TeamNumberOf(last.event),
                                 StrOf(last.event["flag"])) :
              c[2].last_seen = last.at

\* A second submission, later than the first, on the S3 backend
IdempotentUpsertWitness ==
    /\ ValidSubmit
    /\ KeyValueBackend = "S3"
    /\ last.prior # {}
    /\ \A p \in last.prior : p < last.at
    /\ Cardinality(StoredClaims(TeamNumberOf(last.event),
                                StrOf(last.event["flag"]))) = 1

\* C2: a recomputed tally records the weight of every durable flag (weight,
\* no timeout) the team has a claim record for, however old the record, so
\* the score is at least that weight; it records None for it exactly when
\* the team has no claim record.
DurableFlagNeverDecays ==
    Recomputed =>
        \A flag \in TallyFLAGS_DATA["flags"] :
            Durable(flag) =>
                IF StoredClaims(last.res.Team.int, flag["flag"]) # {}
                THEN /\ ScoreEntries(flag) = {PyFloat(flag["weight"])}
                     /\ last.res.Score.float >= flag["weight"]
                ELSE ScoreEntries(flag) = {None}

\* A durable flag counted although its claim is older than any timeout in use
DurableFlagWitness ==
    /\ Recomputed
    /\ \E flag \in TallyFLAGS_DATA["flags"] :
          /\ Durable(flag)
          /\ \E c \in StoredClaims(last.res.Team.int, flag["flag"]) :
                c[2].last_seen + 1 < last.at
          /\ ScoreEntries(flag) = {PyFloat(flag["weight"])}

\* C3: a recomputed tally at time t records the weight of a revocable-alive
\* flag (weight, timeout, yes true or unset) if and only if the team has a
\* claim record with last_seen >= t - timeout, and None otherwise.
RevocableAlive ==
    Recomputed =>
        \A flag \in TallyFLAGS_DATA["flags"] :
            RevocableAliveFlag(flag) =>
                ScoreEntries(flag) =
                    IF \E c \in StoredClaims(last.res.Team.int, flag["flag"]) :
                            c[2].last_seen >= last.at - flag["timeout"]
                    THEN {PyFloat(flag["weight"])}
                    ELSE {None}

\* A claimed revocable-alive flag that stopped counting
RevocableAliveWitness ==
    /\ Recomputed
    /\ \E flag \in TallyFLAGS_DATA["flags"] :
          /\ RevocableAliveFlag(flag)
          /\ \E c \in StoredClaims(last.res.Team.int, flag["flag"]) :
                c[2].last_seen < last.at - flag["timeout"]
          /\ ScoreEntries(flag) = {None}

\* C4: a recomputed tally at time t records the weight of a revocable-dead
\* flag (weight, timeout, yes false) if and only if the team has a claim
\* record with last_seen <= t - timeout, and None otherwise.
RevocableDead ==
    Recomputed =>
        \A flag \in TallyFLAGS_DATA["flags"] :
            RevocableDeadFlag(flag) =>
                ScoreEntries(flag) =
                    IF \E c \in StoredClaims(last.res.Team.int, flag["flag"]) :
                            c[2].last_seen <= last.at - flag["timeout"]
                    THEN {PyFloat(flag["weight"])}
                    ELSE {None}

\* A revocable-dead flag that counts once its claim has aged
RevocableDeadWitness ==
    /\ Recomputed
    /\ \E flag \in TallyFLAGS_DATA["flags"] :
          /\ RevocableDeadFlag(flag)
          /\ \E c \in StoredClaims(last.res.Team.int, flag["flag"]) :
                c[2].last_seen <= last.at - flag["timeout"]
          /\ ScoreEntries(flag) = {PyFloat(flag["weight"])}

\* C5: a flag without weight never counts - a recomputed tally records None
\* for it and the score is the sum over the weighted flags alone, whatever
\* its timeout, yes and claim state - although a submit for it is valid and
\* leaves its claim record in the store.
UnweightedNeverCounts ==
    /\ Recomputed =>
          /\ \A flag \in TallyFLAGS_DATA["flags"] :
                "weight" \notin DOMAIN flag => ScoreEntries(flag) = {None}
          /\ last.res.Score.float =
                SumWeights({flag \in TallyFLAGS_DATA["flags"] :
                              /\ "weight" \in DOMAIN flag
                              /\ ScoreEntries(flag) # {None}})
    /\ last.op = "submit" =>
          \A flag \in SubmitFLAGS_DATA["flags"] :
              /\ ~TeamBad(last.event)
              /\ "flag" \in DOMAIN last.event
              /\ flag["flag"] = StrOf(last.event["flag"])
              /\ "weight" \notin DOMAIN flag
              /\ "auth_key" \notin DOMAIN flag
              => /\ last.res = [ValidFlag |-> TRUE]
                 /\ StoredClaims(TeamNumberOf(last.event), flag["flag"]) # {}

\* A claimed flag without weight, left out of a recomputed score
UnweightedWitness ==
    /\ Recomputed
    /\ \E flag \in TallyFLAGS_DATA["flags"] :
          /\ "weight" \notin DOMAIN flag
          /\ StoredClaims(last.res.Team.int, flag["flag"]) # {}
          /\ ScoreEntries(flag) = {None}

\* C6: a recomputed tally for team T at time t returns the sum of the
\* weights of exactly the flags of the flag snapshot that the validity
\* predicate holds for against T's own claim records at t; with no claim
\* record of T the score is 0.
ScoreIsSumOfValidWeights ==
    Recomputed =>
        /\ last.res.Score.float =
              SumWeights({flag \in TallyFLAGS_DATA["flags"] :
                            ValidityPredicate(flag, last.res.Team.int, last.at)})
        /\ (\A name \in FlagNames : StoredClaims(last.res.Team.int, name) = {})
              => last.res.Score = PyFloat(0)

\* Two flags valid at once: the score is the sum of both weights
ScoreSumWitness ==
    /\ Recomputed
    /\ Cardinality({flag \in TallyFLAGS_DATA["flags"] :
                      ValidityPredicate(flag, last.res.Team.int, last.at)}) = 2
    /\ last.res.Score = PyFloat(3)

\* C7: for a flag whose definition declares auth_key, a well-formed submit
\* returns {ValidFlag: True} when the team (as a string) is a key of the map
\* and the supplied auth_key equals the map's value for it, and
\* {ValidFlag: False} for every other combination of team and key.
GatedSubmitAnswersValidOrNot ==
    last.op = "submit" /\ ~TeamBad(last.event) /\ "flag" \in DOMAIN last.event =>
        \A flag \in SubmitFLAGS_DATA["flags"] :
            flag["flag"] = StrOf(last.event["flag"]) /\ "auth_key" \in DOMAIN flag =>
                last.res =
                    [ValidFlag |->
                        /\ "auth_key" \in DOMAIN last.event
                        /\ NatDigits(TeamNumberOf(last.event))
                              \in DOMAIN flag["auth_key"]
                        /\ last.event["auth_key"] =
                              PyStr(flag["auth_key"]
                                        [NatDigits(TeamNumberOf(last.event))])]

\* The team and key a submit was made with satisfy the flag's auth_key map
Authorized(flag, event) ==
    /\ "auth_key" \in DOMAIN event
    /\ NatDigits(TeamNumberOf(event)) \in DOMAIN flag["auth_key"]
    /\ event["auth_key"] = PyStr(flag["auth_key"][NatDigits(TeamNumberOf(event))])

\* C8: a claim record for (team, flag) is created or changed only by a
\* submit of that team for that flag which, when the flag's definition at
\* submission time declares auth_key, names a team listed in the map and
\* carries that team's key: no request writes a claim for an unlisted team
\* or with a wrong key.
OnlyAuthorizedClaimsWritten ==
    [][\A team \in TeamNumbers, name \in FlagNames :
          StoredClaimsIn(ddbScores', s3Objects', team, name)
                # StoredClaimsIn(ddbScores, s3Objects, team, name)
          => /\ last'.op = "submit"
             /\ ~TeamBad(last'.event)
             /\ TeamNumberOf(last'.event) = team
             /\ "flag" \in DOMAIN last'.event
             /\ StrOf(last'.event["flag"]) = name
             /\ \A flag \in SubmitFLAGS_DATA'["flags"] :
                    flag["flag"] = name /\ "auth_key" \in DOMAIN flag
                    => Authorized(flag, last'.event)]_vars

\* An unlisted team submitted the listed team's key and no record was written
UnlistedTeamWitness ==
    /\ last.op = "submit"
    /\ last.event = SubmitEvent(PyStr(<<"2">>), PyStr(<<"A">>), PyStr(<<"k">>))
    /\ \E flag \in SubmitFLAGS_DATA["flags"] :
          /\ flag["flag"] = <<"A">>
          /\ "auth_key" \in DOMAIN flag
          /\ <<"2">> \notin DOMAIN flag["auth_key"]
    /\ StoredClaims(2, <<"A">>) = {}

\* C9: submit reports every validation error together: two entries when the
\* team is missing or not integral and the flag is missing, one entry when
\* exactly one of the two is, and no client error when neither is.
ValidationErrorsAccumulate ==
    last.op = "submit" =>
        IF TeamBad(last.event) /\ "flag" \notin DOMAIN last.event
        THEN /\ DOMAIN last.res = {"ClientError"}
             /\ Len(last.res.ClientError) = 2
        ELSE IF TeamBad(last.event) \/ "flag" \notin DOMAIN last.event
        THEN /\ DOMAIN last.res = {"ClientError"}
             /\ Len(last.res.ClientError) = 1
        ELSE "ClientError" \notin DOMAIN last.res

\* A submit without team and without flag answered with two errors
TwoErrorsWitness ==
    /\ last.op = "submit"
    /\ "team" \notin DOMAIN last.event
    /\ "flag" \notin DOMAIN last.event
    /\ Len(last.res.ClientError) = 2

\* C10: submit and tally parse the team alike: an integer or the decimal
\* string of one is accepted and names that integer's team (the tally result
\* carries it, a valid submit stores its record under it); a missing team
\* or a non-numeric string gives a result that is only a client-error list,
\* with exactly one message about the team.
TeamParsedAlike ==
    last.op \in {"submit", "tally"} =>
        IF TeamUnparsable(last.event)
        THEN /\ DOMAIN last.res = {"ClientError"}
             /\ Cardinality({i \in 1..Len(last.res.ClientError) :
                               last.res.ClientError[i] = TeamError}) = 1
        ELSE ~TeamBad(last.event) =>
             /\ "ClientError" \in DOMAIN last.res =>
                    \A i \in 1..Len(last.res.ClientError) :
                        last.res.ClientError[i] # TeamError
             /\ last.op = "tally" =>
                    /\ DOMAIN last.res = {"Team", "Score"}
                    /\ last.res.Team = PyInt(TeamNumberOf(last.event))
             /\ ValidSubmit =>
                    \E c \in StoredClaims(TeamNumberOf(last.event),
                                          StrOf(last.event["flag"])) :
                        c[2].last_seen = last.at

\* A tally for the team given as the string "1" answered for team 1
StringTeamWitness ==
    /\ last.op = "tally"
    /\ "team" \in DOMAIN last.event
    /\ last.event["team"] = PyStr(<<"1">>)
    /\ "Team" \in DOMAIN last.res
    /\ last.res.Team = PyInt(1)

\* The last step was a request of the given kind
Handled(op) == requests' = requests + 1 /\ last'.op = op

\* C11: a submit that returns {ValidFlag: True} makes exactly one put: it
\* leaves one record for its own (team, flag) with last_seen = now, adds at
\* most that one item or object, and leaves the records of every other pair
\* as they were; a submit with any other outcome makes no put and leaves
\* both stores unchanged.
SubmitWritesOnlyItsClaim ==
    [][Handled("submit") =>
        IF last'.res = [ValidFlag |-> TRUE]
        THEN /\ last'.puts = 1
             /\ Cardinality(ddbScores') + Cardinality(s3Objects')
                    <= Cardinality(ddbScores) + Cardinality(s3Objects) + 1
             /\ \A team \in TeamNumbers, name \in FlagNames :
                    IF /\ team = TeamNumberOf(last'.event)
                       /\ name = StrOf(last'.event["flag"])
                    THEN /\ Cardinality(StoredClaimsIn(ddbScores', s3Objects',
                                                       team, name)) = 1
                         /\ \A c \in StoredClaimsIn(ddbScores', s3Objects',
                                                    team, name) :
                                c[2].last_seen = now
                    ELSE StoredClaimsIn(ddbScores', s3Objects', team, name)
                            = StoredClaimsIn(ddbScores, s3Objects, team, name)
        ELSE /\ last'.puts = 0
             /\ ddbScores' = ddbScores
             /\ s3Objects' = s3Objects]_vars

\* A valid submit made while the store held the record of another pair
OtherRecordKeptWitness ==
    /\ ValidSubmit
    /\ \E team \in TeamNumbers, name \in FlagNames :
          /\ <<team, name>> # <<TeamNumberOf(last.event), StrOf(last.event["flag"])>>
          /\ StoredClaims(team, name) # {}

\* C12: a submit or tally that answers with a client error touches no
\* storage and changes nothing: no scan, get or put, and the flag caches,
\* the cache lifetimes and the score cache are as before the request.
ClientErrorTouchesNothing ==
    [][/\ Handled("submit") \/ Handled("tally")
       /\ "ClientError" \in DOMAIN last'.res
       => /\ last'.scans = 0
          /\ last'.gets = 0
          /\ last'.puts = 0
          /\ SubmitFLAGS_DATA' = SubmitFLAGS_DATA
          /\ TallyFLAGS_DATA' = TallyFLAGS_DATA
          /\ TEAM_SCORE_CACHE' = TEAM_SCORE_CACHE
          /\ ddbScores' = ddbScores
          /\ s3Objects' = s3Objects]_vars

\* C13: every submit and tally returns a result object - {ValidFlag},
\* {Team, Score} or {ClientError} - and never raises, whatever the team,
\* flag and auth_key of the event.
RequestsNeverRaise ==
    last.op \in {"submit", "tally"} =>
        /\ ~Raised(last.res)
        /\ DOMAIN last.res \in {{"ValidFlag"}, {"Team", "Score"}, {"ClientError"}}

RecomputedScore(team) ==
    PyFloat(SumWeights({flag \in TallyFLAGS_DATA'["flags"] :
                          ValidityPredicate(flag, team, now)}))

\* The team of the tally just handled, when it returned a score
TalliedTeam == last'.res.Team.int

ScoreReturned == Handled("tally") /\ "Score" \in DOMAIN last'.res

\* C15: a tally for a team whose score was cached less than one lifetime ago
\* (the lifetime in force at this call, which is the first call's unless it
\* was changed) returns the cached score again, also when the team's claims
\* have changed since; the first tally made once the lifetime has elapsed
\* recomputes the score from the claim records as they are now.
ScoreCacheServesWithinLifetime ==
    [][ScoreReturned /\ TalliedTeam \in DOMAIN TEAM_SCORE_CACHE.teams =>
        IF now - TEAM_SCORE_CACHE.teams[TalliedTeam].time
                < TEAM_SCORE_CACHE'.timeout
        THEN /\ last'.hit
             /\ last'.res.Score =
                    PyFloat(TEAM_SCORE_CACHE.teams[TalliedTeam].score)
        ELSE /\ ~last'.hit
             /\ last'.res.Score = RecomputedScore(TalliedTeam)]_vars

\* A cached score returned although a claim made since would change it
StaleScoreServedWitness ==
    /\ last.op = "tally"
    /\ "Score" \in DOMAIN last.res
    /\ last.hit
    /\ last.res.Score = PyFloat(0)
    /\ \E c \in StoredClaims(last.res.Team.int, <<"B">>) : c[2].last_seen <= last.at
    /\ \E flag \in TallyFLAGS_DATA["flags"] : flag["flag"] = <<"B">>

\* The last request was a tally that asked for a score-cache lifetime of 0
\* and returned a score
CacheOffTally ==
    /\ last.op = "tally"
    /\ "ScoreCacheLifetime" \in DOMAIN last.event
    /\ last.event["ScoreCacheLifetime"] = PyInt(0)
    /\ "Score" \in DOMAIN last.res

\* C16: a tally with score-cache lifetime 0 never answers from the cache: it
\* reads the team's claim record for every flag of the snapshot, so every
\* claim the team has made before the call is seen (a claimed durable flag is
\* scored) and the score is the sum over the flags valid for the records in
\* the store.
CacheOffSeesEverySubmit ==
    CacheOffTally =>
        /\ ~last.hit
        /\ last.gets = Cardinality(TallyFLAGS_DATA["flags"])
        /\ \A flag \in TallyFLAGS_DATA["flags"] :
              Durable(flag) /\ StoredClaims(last.res.Team.int, flag["flag"]) # {}
              => ScoreEntries(flag) = {PyFloat(flag["weight"])}
        /\ last.res.Score.float =
              SumWeights({flag \in TallyFLAGS_DATA["flags"] :
                            ValidityPredicate(flag, last.res.Team.int, last.at)})

\* With the cache off, a claim made in the same clock tick as the tally is
\* already in the score
CacheOffWitness ==
    /\ CacheOffTally
    /\ last.res.Score.float >= 2
    /\ \E c \in StoredClaims(last.res.Team.int, <<"B">>) : c[2].last_seen = last.at

CacheReadFollows(before, after, scans, due) ==
    IF "check_time" \notin DOMAIN before \/ due
    THEN /\ scans = 1
         /\ after["flags"] = flagsTable
         /\ after["check_time"] = now
    ELSE /\ scans = 0
         /\ after["flags"] = before["flags"]
         /\ after["check_time"] = before["check_time"]

\* now - refreshed_at >= ttl, for a cache that has been filled and the
\* lifetime in force at the read
TtlReached(before, after) ==
    /\ "check_time" \in DOMAIN before
    /\ now - before["check_time"] >= after["check_interval"]

\* now - refreshed_at > ttl
TtlPassed(before, after) ==
    /\ "check_time" \in DOMAIN before
    /\ now - before["check_time"] > after["check_interval"]

\* C18 as claimed: a read of a flag cache scans the flags table, replaces the
\* list and sets refreshed_at = now if and only if now - refreshed_at >= ttl
\* or the cache is empty, and otherwise leaves list and refreshed_at alone.
FlagCacheRefreshAtTtl ==
    [][/\ Handled("submit") =>
            CacheReadFollows(SubmitFLAGS_DATA, SubmitFLAGS_DATA', last'.scans,
                             TtlReached(SubmitFLAGS_DATA, SubmitFLAGS_DATA'))
       /\ Handled("tally") =>
            CacheReadFollows(TallyFLAGS_DATA, TallyFLAGS_DATA', last'.scans,
                             TtlReached(TallyFLAGS_DATA, TallyFLAGS_DATA'))]_vars

\* C18 amended: a read of a flag cache scans the flags table, replaces the
\* list and sets refreshed_at = now if and only if now - refreshed_at > ttl
\* or the cache is empty, and otherwise leaves list and refreshed_at alone.
FlagCacheRefreshAfterTtl ==
    [][/\ Handled("submit") =>
            CacheReadFollows(SubmitFLAGS_DATA, SubmitFLAGS_DATA', last'.scans,
                             TtlPassed(SubmitFLAGS_DATA, SubmitFLAGS_DATA'))
       /\ Handled("tally") =>
            CacheReadFollows(TallyFLAGS_DATA, TallyFLAGS_DATA', last'.scans,
                             TtlPassed(TallyFLAGS_DATA, TallyFLAGS_DATA'))]_vars

\* A submit read its flag cache exactly one lifetime (of 1) after the fill and
\* kept the list, which the flags table no longer equals
RefreshBoundaryWitness ==
    /\ last.op = "submit"
    /\ last.scans = 0
    /\ SubmitFLAGS_DATA["check_interval"] = 1
    /\ last.at - SubmitFLAGS_DATA["check_time"] = 1
    /\ SubmitFLAGS_DATA["flags"] # flagsTable

FlagNamesOf(flags) == {flag["flag"] : flag \in flags}

\* The last step was a submit, by a handler whose flag cache was filled, for
\* a flag that is in the flags table but not in the handler's snapshot
SubmitOfAddedFlag ==
    /\ Handled("submit")
    /\ "check_time" \in DOMAIN SubmitFLAGS_DATA
    /\ StrOf(last'.event["flag"]) \in FlagNamesOf(flagsTable)
    /\ StrOf(last'.event["flag"]) \notin FlagNamesOf(SubmitFLAGS_DATA["flags"])

\* C19: a submit for a flag added to the flags table after the handler's
\* flag cache was filled returns {ValidFlag: False} as long as no more than
\* the flag-cache lifetime (the one in force at the submit) has passed since
\* the fill, and writes nothing; any submit made once more than the lifetime
\* has passed refreshes the snapshot and returns {ValidFlag: True}.
AddedFlagAcceptedAfterLifetime ==
    [][SubmitOfAddedFlag =>
        IF now - SubmitFLAGS_DATA["check_time"] > SubmitFLAGS_DATA'["check_interval"]
        THEN /\ last'.res = [ValidFlag |-> TRUE]
             /\ SubmitFLAGS_DATA'["flags"] = flagsTable
        ELSE /\ last'.res = [ValidFlag |-> FALSE]
             /\ last'.puts = 0
             /\ SubmitFLAGS_DATA'["flags"] = SubmitFLAGS_DATA["flags"]]_vars

\* A submit for flag "C" refused from a snapshot filled before "C" was added,
\* at a time when the tally handler had already scanned "C"
AddedFlagRejectedWitness ==
    /\ last.op = "submit"
    /\ last.event["flag"] = PyStr(<<"C">>)
    /\ last.res = [ValidFlag |-> FALSE]
    /\ "flags" \in DOMAIN TallyFLAGS_DATA
    /\ FlagC \in TallyFLAGS_DATA["flags"]
    /\ TallyFLAGS_DATA["check_time"] < last.at
    /\ FlagC \notin SubmitFLAGS_DATA["flags"]
    /\ last.at - SubmitFLAGS_DATA["check_time"] <= SubmitFLAGS_DATA["check_interval"]

\* The number a cache-lifetime parameter of the events stands for
LifetimeOf(v) ==
    IF IsInt(v) THEN v.int ELSE CHOOSE n \in 0..99 : NatDigits(n) = v.str

\* The lifetime in force after a request: the one it supplies under `key`,
\* else the one in force before
Requested(event, key, old) ==
    IF key \in DOMAIN event THEN LifetimeOf(event[key]) ELSE old

\* C20: a request that supplies a cache lifetime sets that cache's ttl to it
\* before the cache is consulted (the refresh test and the score-cache test
\* of the same request use the new value); a request that supplies none
\* leaves the ttl as the last supplying request left it, whatever its team;
\* nothing else changes a ttl.
LifetimeParameterPersists ==
    [][/\ Handled("submit") =>
            /\ SubmitFLAGS_DATA'["check_interval"] =
                  Requested(last'.event, "FlagCacheLifetime",
                            SubmitFLAGS_DATA["check_interval"])
            /\ "check_time" \in DOMAIN SubmitFLAGS_DATA =>
                  (last'.scans = 1 <=>
                      now > SubmitFLAGS_DATA["check_time"]
                              + SubmitFLAGS_DATA'["check_interval"])
       /\ Handled("tally") =>
            /\ TallyFLAGS_DATA'["check_interval"] =
                  Requested(last'.event, "FlagCacheLifetime",
                            TallyFLAGS_DATA["check_interval"])
            /\ TEAM_SCORE_CACHE'.timeout =
                  Requested(last'.event, "ScoreCacheLifetime",
                            TEAM_SCORE_CACHE.timeout)
            /\ "check_time" \in DOMAIN TallyFLAGS_DATA =>
                  (last'.scans = 1 <=>
                      now > TallyFLAGS_DATA["check_time"]
                              + TallyFLAGS_DATA'["check_interval"])
            /\ "Score" \in DOMAIN last'.res =>
                  (last'.hit <=>
                      /\ TalliedTeam \in DOMAIN TEAM_SCORE_CACHE.teams
                      /\ TEAM_SCORE_CACHE.teams[TalliedTeam].time
                            > now - TEAM_SCORE_CACHE'.timeout)
       /\ ~Handled("submit") =>
            SubmitFLAGS_DATA'["check_interval"] = SubmitFLAGS_DATA["check_interval"]
       /\ ~Handled("tally") =>
            /\ TallyFLAGS_DATA'["check_interval"] = TallyFLAGS_DATA["check_interval"]
            /\ TEAM_SCORE_CACHE'.timeout = TEAM_SCORE_CACHE.timeout]_vars

\* A tally for team 2 that names no score-cache lifetime is served under the
\* lifetime of 2 that a tally for team 1 asked for
LifetimeKeptWitness ==
    /\ last.op = "tally"
    /\ "ScoreCacheLifetime" \notin DOMAIN last.event
    /\ last.event["team"] = PyStr(<<"2">>)
    /\ TEAM_SCORE_CACHE.timeout = 2

\* The smaller of two lifetimes
Smaller(a, b) == IF a <= b THEN a ELSE b

\* C21 as claimed: the ttl of a flag cache is the smallest lifetime asked for
\* so far - a request that supplies a lifetime leaves the smaller of it and
\* the ttl in force, so no request ever raises the ttl.
FlagTtlIsSmallestRequested ==
    [][/\ Handled("submit") =>
            SubmitFLAGS_DATA'["check_interval"] =
                Smaller(SubmitFLAGS_DATA["check_interval"],
                        Requested(last'.event, "FlagCacheLifetime",
                                  SubmitFLAGS_DATA["check_interval"]))
       /\ Handled("tally") =>
            TallyFLAGS_DATA'["check_interval"] =
                Smaller(TallyFLAGS_DATA["check_interval"],
                        Requested(last'.event, "FlagCacheLifetime",
                                  TallyFLAGS_DATA["check_interval"]))]_vars

\* C21 amended: the ttl of a flag cache is the lifetime asked for most
\* recently (30 while none was) - after a request that supplies a lifetime
\* the ttl is that lifetime, larger or smaller than before, and only such a
\* request of the same handler changes it.
FlagTtlIsLastRequested ==
    [][/\ SubmitFLAGS_DATA'["check_interval"] # SubmitFLAGS_DATA["check_interval"]
            => /\ Handled("submit")
               /\ "FlagCacheLifetime" \in DOMAIN last'.event
       /\ TallyFLAGS_DATA'["check_interval"] # TallyFLAGS_DATA["check_interval"]
            => /\ Handled("tally")
               /\ "FlagCacheLifetime" \in DOMAIN last'.event
       /\ Handled("submit") /\ "FlagCacheLifetime" \in DOMAIN last'.event
            => SubmitFLAGS_DATA'["check_interval"] =
                  LifetimeOf(last'.event["FlagCacheLifetime"])
       /\ Handled("tally") /\ "FlagCacheLifetime" \in DOMAIN last'.event
            => TallyFLAGS_DATA'["check_interval"] =
                  LifetimeOf(last'.event["FlagCacheLifetime"])]_vars

\* The submit handler's ttl is 1 after it was 0: a claim of time 0 shows the
\* cache was filled by then, and the refresh at time 1 needed a ttl below 1
TtlRaisedWitness ==
    /\ last.op = "submit"
    /\ SubmitFLAGS_DATA["check_interval"] = 1
    /\ SubmitFLAGS_DATA["check_time"] = 1
    /\ \E c \in StoredClaims(1, <<"B">>) : c[2].last_seen = 0

----------------------------------------------------------------------------
(* The content-addressed store *)

\* The step is a call of the store's method `op`
StoreCalled(op) ==
    /\ last'.op = op
    /\ <<last, s3Objects>>' # <<last, s3Objects>>

\* Two records agree on every declared key field of a table
SameKeyFields(self, a, b) == \A f \in self.keys : a[f] = b[f]

\* Two table objects address the same objects
SameTable(a, b) == a.bucket = b.bucket /\ a.prefix = b.prefix

\* C22: after put_item(Item=item) succeeds, get_item with any Key agreeing
\* with the item on the key fields (extra fields ignored) returns exactly
\* the item; and what get_item returns for a key is changed by nothing but
\* a successful put_item with those key fields.
StoreRoundTrip ==
    [][/\ StoreCalled("put_item") /\ ~Raised(last'.res) =>
            \A k \in StoreKeys :
                SameKeyFields(last'.self, k, last'.kwargs["Item"]) =>
                    TableGetItem(last'.self, s3Objects', ("Key" :> k)).ret
                        = [Item |-> last'.kwargs["Item"]]
       /\ s3Objects' # s3Objects =>
            \A t \in StoreTables, k \in StoreKeys :
                TableGetItem(t, s3Objects', ("Key" :> k))
                        # TableGetItem(t, s3Objects, ("Key" :> k)) =>
                    /\ StoreCalled("put_item")
                    /\ ~Raised(last'.res)
                    /\ SameTable(last'.self, t)
                    /\ SameKeyFields(t, k, last'.kwargs["Item"])]_vars

\* A Key carrying a last_seen of its own gets back the record stored under
\* its key fields, with the last_seen of the later of two puts.
RoundTripWitness ==
    /\ last.op = "get_item"
    /\ "ret" \in DOMAIN last.res
    /\ "last_seen" \in DOMAIN last.kwargs["Key"]
    /\ last.res.ret = [Item |-> StoreRecord(PyInt(1), PyStr(<<"A">>), PyInt(1))]
    /\ Cardinality(s3Objects) >= 2

\* The object name the last get_item asked the bucket for
AskedName == ObjectName(last.self, last.kwargs["Key"])

\* The last call was a get_item whose Key passed validation
GotValidKey ==
    /\ last.op = "get_item"
    /\ "Key" \in DOMAIN last.kwargs
    /\ IsDict(last.kwargs["Key"])
    /\ last.self.keys \subseteq DOMAIN last.kwargs["Key"]

\* C23: get_item returns an empty result, raising nothing, exactly when the
\* backend signals NoSuchKey for the object name (the bucket exists and holds
\* no object of that name); any other failure of the backend, such as a
\* bucket that does not exist, is raised to the caller.
EmptyOnlyOnNotFound ==
    GotValidKey =>
        LET signal == GetObject(last.self.bucket, s3Objects, AskedName)
        IN  /\ ("ret" \in DOMAIN last.res /\ last.res.ret = EmptyDict)
                <=> (Raised(signal) /\ signal.Code = "NoSuchKey")
            /\ Raised(signal) /\ signal.Code = "NoSuchKey"
                <=> /\ last.self.bucket \in ExistingBuckets
                    /\ \A o \in s3Objects : o.Key # AskedName
            /\ Raised(signal) /\ signal.Code # "NoSuchKey"
                => /\ Raised(last.res)
                   /\ last.res.exc = "ClientError"
                   /\ last.res.Code = signal.Code
            /\ ~Raised(signal) => last.res.ret # EmptyDict

\* get_item on a table of a bucket that does not exist raised the backend's
\* error, although the bucket that exists holds an object of that very name.
NoSuchBucketWitness ==
    /\ GotValidKey
    /\ last.self.bucket \notin ExistingBuckets
    /\ Raised(last.res)
    /\ last.res.Code = "NoSuchBucket"
    /\ \E o \in s3Objects : o.Key = AskedName

\* get_item returned an empty result for a name the bucket does not hold,
\* while it holds another object.
EmptyResultWitness ==
    /\ GotValidKey
    /\ "ret" \in DOMAIN last.res
    /\ last.res.ret = EmptyDict
    /\ s3Objects # {}

\* The argument name of a store method
ArgumentOf(op) == IF op = "put_item" THEN "Item" ELSE "Key"

\* The error the argument of a call deserves, "none" if it is acceptable
ArgumentError(self, op, kwargs) ==
    IF ArgumentOf(op) \notin DOMAIN kwargs THEN "KeyError"
    ELSE IF ~IsDict(kwargs[ArgumentOf(op)]) THEN "TypeError"
    ELSE IF \E f \in self.keys : f \notin DOMAIN kwargs[ArgumentOf(op)]
    THEN "ValueError"
    ELSE "none"

\* C24: put_item and get_item validate their argument before any backend
\* operation: a missing argument raises KeyError, a non-dictionary TypeError,
\* a dictionary lacking a declared key field ValueError, with no backend
\* call made and the bucket unchanged; an argument with every key field is
\* never refused, whatever extra fields it has.
ArgumentsValidatedFirst ==
    [][\A op \in {"put_item", "get_item"} :
        StoreCalled(op) =>
            LET error == ArgumentError(last'.self, op, last'.kwargs)
            IN  IF error # "none"
                THEN /\ Raised(last'.res)
                     /\ last'.res.exc = error
                     /\ last'.res.calls = <<>>
                     /\ s3Objects' = s3Objects
                ELSE /\ Len(last'.res.calls) = 1
                     /\ Raised(last'.res) => last'.res.exc = "ClientError"]_vars

\* A put_item of a record lacking a key field, on a table whose bucket does
\* not exist, raised ValueError and not the backend's error; the bucket that
\* exists holds objects.
InvalidPutWitness ==
    /\ last.op = "put_item"
    /\ last.self.bucket \notin ExistingBuckets
    /\ Raised(last.res)
    /\ last.res.exc = "ValueError"
    /\ last.res.calls = <<>>
    /\ s3Objects # {}

\* The name a call handed to the bucket, and the prefix that name starts with
CalledName == last.res.calls[1].Key
PrefixOfName(name) == SubSeq(name, 1, Len(name) - 2)

\* C27: the object name is prefix + "/" + digest and depends on the declared
\* key fields only: the name a put_item or get_item hands to the bucket is
\* the name of a stored object exactly when the call's table has the prefix
\* that object was put under and the call's argument agrees with the stored
\* record on every declared key field, whatever other fields either has and
\* whichever of put_item and get_item computes the name.
NameIsFunctionOfKeyFields ==
    last.op \in {"put_item", "get_item"} /\ last.res.calls # <<>> =>
        /\ PrefixOfName(CalledName) = last.self.prefix
        /\ CalledName[Len(CalledName) - 1] = "/"
        /\ \A t \in StoreTables, r \in StoreItems \cup StoreKeys :
                ObjectName(t, r) = CalledName
                    <=> /\ t.prefix = last.self.prefix
                        /\ SameKeyFields(t, r, last.kwargs[ArgumentOf(last.op)])
        /\ \A o \in s3Objects :
                o.Key = CalledName
                    <=> /\ PrefixOfName(o.Key) = last.self.prefix
                        /\ SameKeyFields(last.self, PickleLoads(o.Body),
                                         last.kwargs[ArgumentOf(last.op)])

\* A get_item whose Key has fields the stored record lacks named that
\* record's object, while the bucket also holds, under other names, a record
\* whose team is the string "1" rather than the number 1 and a record put
\* under the other prefix.
SameNameWitness ==
    /\ last.op = "get_item"
    /\ last.res.calls # <<>>
    /\ \E o \in s3Objects :
        /\ o.Key = CalledName
        /\ DOMAIN PickleLoads(o.Body) # DOMAIN last.kwargs["Key"]
        /\ PickleLoads(o.Body).team = PyInt(1)
    /\ \E o \in s3Objects :
        /\ o.Key # CalledName
        /\ PickleLoads(o.Body).team = PyStr(<<"1">>)
    /\ \E o \in s3Objects : PrefixOfName(o.Key) # last.self.prefix

----------------------------------------------------------------------------
(* The results of tally *)

\* Flag names in ascending order
NameOrder == <<<<"A">>, <<"B">>, <<"C">>, <<"Z">>>>

Before(a, b) ==
    \E i, j \in 1..Len(NameOrder) :
        i < j /\ NameOrder[i] = a /\ NameOrder[j] = b

\* A bitmask entry reports a flag claimed when the score evaluated for the
\* flag is neither None nor 0
ReportedClaimed(scores, name) ==
    \E s \in scores : s[1] = name /\ s[2] # None /\ s[2].float # 0

\* C25: every score result of tally carries, besides the team and the score,
\* a bitmask with exactly one entry per flag of the flag-cache snapshot, in
\* the order of the flag names, an entry of a recomputed result being claimed
\* if and only if the score evaluated for its flag is neither None nor 0.
TallyReportsBitmask ==
    last.op = "tally" /\ "Score" \in DOMAIN last.res =>
        /\ "Team" \in DOMAIN last.res
        /\ "bitmask" \in DOMAIN last.res
        /\ last.hit \/ Len(last.res.bitmask) = Cardinality(TallyFLAGS_DATA["flags"])
        /\ {e.flag : e \in {last.res.bitmask[i] :
                                i \in 1..Len(last.res.bitmask)}}
                = FlagNamesOf(TallyFLAGS_DATA["flags"])
        /\ \A i, j \in 1..Len(last.res.bitmask) :
                i < j => Before(last.res.bitmask[i].flag,
                                last.res.bitmask[j].flag)
        /\ last.hit \/ \A i \in 1..Len(last.res.bitmask) :
                last.res.bitmask[i].claimed
                    <=> ReportedClaimed(last.scores, last.res.bitmask[i].flag)

----------------------------------------------------------------------------
(* The claim store in use *)

\* C26: after submit or tally has handled an event, the claim store the
\* handler uses is the one the event's KeyValueBackend names, for any
\* sequence of events naming now DynamoDB, now S3.
BackendFollowsEvent ==
    /\ last.op = "submit" =>
            SubmitSCORES_TABLE.kind = last.event["KeyValueBackend"]
    /\ last.op = "tally" =>
            TallySCORES_TABLE.kind = last.event["KeyValueBackend"]

----------------------------------------------------------------------------
(* The score cache *)

\* C28: a tally answered from the score cache returns at once: it scans the
\* flags table not at all, leaves the flag cache's snapshot and its time of
\* refresh as they were, reads no claim record, and leaves every entry of
\* the score cache unchanged.
ScoreCacheHitTouchesNothing ==
    [][Handled("tally") /\ last'.hit =>
          /\ last'.scans = 0
          /\ last'.gets = 0
          /\ TallyFLAGS_DATA'["flags"] = TallyFLAGS_DATA["flags"]
          /\ TallyFLAGS_DATA'["check_time"] = TallyFLAGS_DATA["check_time"]
          /\ TEAM_SCORE_CACHE'.teams = TEAM_SCORE_CACHE.teams]_vars

\* The score cache's entry for a team, None while there is none
CacheEntry(CACHE, team) ==
    IF team \in DOMAIN CACHE.teams THEN CACHE.teams[team] ELSE None

\* C29: the score cache's entry for team T is created or changed only by a
\* tally for T that recomputes the score, which stores the score it computed
\* with the time of the call; a submit, a tally for another team, a tally for
\* T answered from the cache and a tally that returns a client error leave
\* T's entry as it was.
EntryChangedOnlyByRecomputation ==
    [][/\ \A T \in TeamNumbers :
            CacheEntry(TEAM_SCORE_CACHE', T) # CacheEntry(TEAM_SCORE_CACHE, T)
                => /\ ScoreReturned
                   /\ TalliedTeam = T
                   /\ ~last'.hit
       /\ ScoreReturned /\ ~last'.hit =>
            CacheEntry(TEAM_SCORE_CACHE', TalliedTeam)
                = [score |-> RecomputedScore(TalliedTeam).float, time |-> now]
       /\ Handled("tally") /\ ~ScoreReturned =>
            TEAM_SCORE_CACHE'.teams = TEAM_SCORE_CACHE.teams
       /\ Handled("submit") =>
            TEAM_SCORE_CACHE'.teams = TEAM_SCORE_CACHE.teams]_vars

\* A tally that returned a client error left team 1's entry, computed
\* earlier and before the team claimed flag B, as it was.
EntryKeptWitness ==
    /\ last.op = "tally"
    /\ "ClientError" \in DOMAIN last.res
    /\ 1 \in DOMAIN TEAM_SCORE_CACHE.teams
    /\ TEAM_SCORE_CACHE.teams[1] = [score |-> 0, time |-> 0]
    /\ last.at > 0
    /\ StoredClaims(1, <<"B">>) # {}

----------------------------------------------------------------------------
(* Claiming and scoring *)

\* The definitions of the submit handler's snapshot that name the flag of
\* the last request
NamedFlags ==
    {flag \in SubmitFLAGS_DATA["flags"] : flag["flag"] = StrOf(last.event["flag"])}

\* C30: a submit by a well-formed team for a flag of the flag cache, no
\* definition of which declares an auth_key, returns {ValidFlag: True}
\* whatever the flag's weight, timeout and yes are, whether or not the team
\* has a claim record for it and however old that record is, and whatever
\* the time is.
ClaimIgnoresScoreability ==
    /\ last.op = "submit"
    /\ ~TeamBad(last.event)
    /\ "flag" \in DOMAIN last.event
    /\ NamedFlags # {}
    /\ \A flag \in NamedFlags : "auth_key" \notin DOMAIN flag
    => last.res = [ValidFlag |-> TRUE]

\* A flag that scores nothing now, having no weight and being revocable-dead
\* with a fresh claim, was claimed again two ticks after its first claim.
UnscoreableClaimedWitness ==
    /\ last.op = "submit"
    /\ last.res = [ValidFlag |-> TRUE]
    /\ last.at = 2
    /\ last.prior # {}
    /\ \A p \in last.prior : p = 0
    /\ \E flag \in NamedFlags :
        /\ "weight" \notin DOMAIN flag
        /\ "timeout" \in DOMAIN flag
        /\ "yes" \in DOMAIN flag /\ flag["yes"] = FALSE

----------------------------------------------------------------------------
(* Flag definitions that change *)

\* The score the flags table, as it is now, gives a team
ScoreByTable(team) ==
    PyFloat(SumWeights({flag \in flagsTable : ValidityPredicate(flag, team, now)}))

\* C31: a request that scans the flags table leaves its handler with exactly
\* the table's definitions as they are at the scan, nothing of the old
\* snapshot kept: the submit answers valid exactly if the table still names
\* the flag, and the tally's recomputed score is the one the table's present
\* weights, timeouts and yes give the claim records, so that a deleted flag
\* counts for nothing although its claim record remains.
RefreshReplacesSnapshot ==
    [][/\ Handled("submit") /\ last'.scans >= 1 =>
            /\ SubmitFLAGS_DATA'["flags"] = flagsTable
            /\ last'.res = [ValidFlag |->
                    StrOf(last'.event["flag"]) \in FlagNamesOf(flagsTable)]
       /\ Handled("tally") /\ last'.scans >= 1 =>
            /\ TallyFLAGS_DATA'["flags"] = flagsTable
            /\ ~last'.hit => last'.res.Score = ScoreByTable(TalliedTeam)]_vars

\* The submit handler, which had accepted flag B for team 1 and so held a
\* snapshot naming it, refused the flag after it was deleted; the tally
\* handler scores nothing for the record that remains.
DeletedFlagWitness ==
    /\ last.op = "submit"
    /\ last.res = [ValidFlag |-> FALSE]
    /\ last.scans = 1
    /\ flagsTable = {}
    /\ StoredClaims(1, <<"B">>) # {}
    /\ "flags" \in DOMAIN TallyFLAGS_DATA
    /\ TallyFLAGS_DATA["flags"] = {}
    /\ "check_time" \in DOMAIN TallyFLAGS_DATA
    /\ TallyFLAGS_DATA["check_time"] > 0

\* A tally scored the changed weight for a claim recorded before the change
ChangedWeightWitness ==
    /\ last.op = "tally"
    /\ last.res = [Team |-> PyInt(1), Score |-> PyFloat(3)]
    /\ last.scans = 1
    /\ \E c \in StoredClaims(1, <<"B">>) : c[2].last_seen < last.at

----------------------------------------------------------------------------
(* A claim followed by a tally *)

\* The step is a tally, with the score cache off, for the team whose submit
\* for a weighted durable flag was the last request and returned valid, the
\* tally handler's flag-cache lifetime being the submission handler's
TallyFollowsValidSubmit ==
    /\ Handled("tally")
    /\ last.op = "submit"
    /\ last.res = [ValidFlag |-> TRUE]
    /\ \A flag \in NamedFlags : Durable(flag)
    /\ ScoreReturned
    /\ TalliedTeam = TeamNumberOf(last.event)
    /\ TEAM_SCORE_CACHE'.timeout = 0
    /\ TallyFLAGS_DATA'["check_interval"] = SubmitFLAGS_DATA["check_interval"]

\* The tally just made scored the claimed flag at its weight
ClaimedFlagScored ==
    \A flag \in NamedFlags :
        <<flag["flag"], PyFloat(flag["weight"])>> \in last'.scores

SubmitRefreshedAfterTally ==
    /\ last.checked >= 0
    /\ last.at > last.checked + SubmitFLAGS_DATA["check_interval"]
    /\ "check_time" \in DOMAIN TallyFLAGS_DATA
    /\ TallyFLAGS_DATA["check_time"] <= last.checked

----------------------------------------------------------------------------
(* The key of a claim record *)

\* The Key score_flag looks a team's claim of a flag up with
TallyKey(team, flag) == [team |-> PyInt(team), flag |-> PyStr(flag["flag"])]

\* C35: after a submit that returned valid, the record it wrote is the item
\* that get_item returns for the key tally builds from the team's number and
\* the name of the definition the submitted flag matched, on either backend,
\* the team being given as a number or a numeral and the flag in any form
\* that matches the name.
ClaimStoredUnderTallyKey ==
    ValidSubmit =>
        \A flag \in NamedFlags :
            LET item == get_item(SubmitSCORES_TABLE,
                                 TallyKey(TeamNumberOf(last.event), flag))
            IN  /\ "Item" \in DOMAIN item
                /\ item["Item"].last_seen = last.at

----------------------------------------------------------------------------
(* Concurrent invocations *)

\* The thread is inside a refresh of its module's snapshot: it has scanned
\* the flags table and has not yet stamped the refresh
Refreshing(t) == threads[t].pc \in {"set_flags", "set_time"}

\* The thread has read the flag cache and holds the list as its flag_data
HoldsFlagData(t) == "flag_data" \in DOMAIN threads[t]

\* C32: every list a thread got from the flag cache, and every list the
\* cache of either module holds, is the result of one completed scan of the
\* flags table, whatever the other threads are in the middle of.
SnapshotNeverTorn ==
    /\ \A t \in Threads :
          HoldsFlagData(t) => threads[t].flag_data \in history.scans
    /\ \A h \in {"submit", "tally"} :
          "flags" \in DOMAIN Module(h).FLAGS_DATA
              => Module(h).FLAGS_DATA["flags"] \in history.scans

\* C32 witness: a thread has replaced the snapshot and not yet stamped the
\* refresh, and another thread of the same handler reads the cache meanwhile
\* and holds the old list, which differs from the new
ReaderDuringRefreshWitness ==
    \E t, u \in Threads :
        /\ t # u
        /\ threads[t].pc = "set_time"
        /\ HoldsFlagData(u)
        /\ threads[u].h = threads[t].h
        /\ threads[u].flag_data # Module(threads[t].h).FLAGS_DATA["flags"]
        /\ threads[u].flag_data # {}

\* No thread is inside a handler
AllIdle == \A t \in Threads : threads[t].pc = "idle"

\* The largest of a set of timestamps
Largest(stamps) == CHOOSE x \in stamps : \A y \in stamps : y <= x

\* The last_seen of the records stored for team 1 and flag B
StoredLastSeen == {c[2].last_seen : c \in StoredClaims(1, <<"B">>)}

\* C33 as claimed: once the concurrent submissions of team 1 for flag B
\* have all returned, one record is stored for the pair and its last_seen
\* is the largest of the timestamps the submissions took.
LastSeenIsLargestTimestamp ==
    AllIdle /\ history.stamps # {} =>
        /\ Cardinality(StoredClaims(1, <<"B">>)) = 1
        /\ StoredLastSeen = {Largest(history.stamps)}

\* C33 amended: as soon as a submission of team 1 for flag B has written,
\* exactly one record is stored for the pair, and its last_seen is the
\* timestamp of the submission whose put_item reached the store last.
LastSeenIsLastWrite ==
    history.landed # <<>> =>
        /\ Cardinality(StoredClaims(1, <<"B">>)) = 1
        /\ StoredLastSeen = {history.landed[Len(history.landed)]}

\* C33 witness: two submissions took their timestamps at 0 and at 1, the
\* later one wrote first, and after both returned the record holds 0
OvertakenSubmitWitness ==
    /\ AllIdle
    /\ history.landed = <<1, 0>>
    /\ Cardinality(StoredClaims(1, <<"B">>)) = 1
    /\ StoredLastSeen = {0}
    /\ last.res = [ValidFlag |-> TRUE]

\* A tally thread writes the score cache entry of team 1 over an earlier one
EntryOverwritten ==
    /\ 1 \in DOMAIN TEAM_SCORE_CACHE.teams
    /\ history.entry # None
    /\ \E t \in Threads : threads[t].pc = "score" /\ threads'[t].pc = "idle"

\* C36: a tally that writes the score cache entry of team 1 has read the
\* claims no earlier than the tally whose entry it overwrites (counted in
\* submissions written when the read was made), and stamps the entry with
\* the time of its claim reads.
ScoreEntryNeverRegresses ==
    [][/\ EntryOverwritten => history'.entry.puts >= history.entry.puts
       /\ (\E t \in Threads : threads[t].pc = "score" /\ threads'[t].pc = "idle")
            => TEAM_SCORE_CACHE'.teams[1].time = history'.entry.at]_vars

----------------------------------------------------------------------------
(* Trace chains *)

\* A call of that name is made on a chain in this step
ChainCall(op) == requests' = requests + 1 /\ last'.op = op

\* The chains there were are what they were, and nothing else changed
ChainsKept ==
    /\ SubSeq(xray'.chains, 1, Len(xray.chains)) = xray.chains
    /\ xray'.client = xray.client
    /\ xray'.ids = xray.ids

\* C37: fork_subsegment on a chain that has logged no segment - a root or a
\* fork, whatever was logged on other chains and whatever parent_id is
\* passed - raises RuntimeError and no chain is created; fork_root on such a
\* chain returns a child; and a child has logged no segment when it is forked.
SubsegmentForkNeedsSegment ==
    [][ChainCall("fork") =>
          /\ (\A e \in history.logged : e.chain # last'.chain)
                => IF last'.subsegment
                   THEN last'.res = [exc |-> "RuntimeError"] /\ xray' = xray
                   ELSE /\ last'.res = [child |-> Len(xray.chains) + 1]
                        /\ Len(xray'.chains) = Len(xray.chains) + 1
          /\ ~Raised(last'.res) =>
                /\ xray'.chains[last'.res.child].last_segment_id = None
                /\ \A e \in history'.logged : e.chain # last'.res.child]_vars

\* C37 witness: a segment was logged on the root chain, a child was forked
\* from it, and fork_subsegment on the child raised
ChildForkRefusedWitness ==
    /\ last.op = "fork" /\ last.subsegment
    /\ last.res = [exc |-> "RuntimeError"]
    /\ xray.chains[last.chain].parent_id # None
    /\ \E e \in history.logged : e.id = xray.chains[last.chain].parent_id

\* The id of the segment logged last on chain c, None if there is none
MostRecentlyLogged(c) ==
    LET mine == {e \in history.logged : e.chain = c}
    IN  IF mine = {} THEN None
        ELSE (CHOOSE e \in mine : \A f \in mine : f.call <= e.call).id

\* C38: a fork that returns a child gives it the parent_id passed, or else
\* the id of the segment logged last on the forked chain by log, log_start
\* or log_end, and the trace_id of the forked chain; the chains there were,
\* the forked one among them, are unchanged.
ForkHasRightParent ==
    [][ChainCall("fork") /\ ~Raised(last'.res) =>
          /\ xray'.chains[last'.res.child].parent_id =
                IF last'.parent_id # None THEN last'.parent_id
                ELSE MostRecentlyLogged(last'.chain)
          /\ xray'.chains[last'.res.child].trace_id =
                xray.chains[last'.chain].trace_id
          /\ ChainsKept]_vars

\* A segment was started on a chain, another logged, the first ended, and a
\* fork of the chain without parent_id hangs under the segment ended
ForkAfterLogEndWitness ==
    /\ last.op = "fork" /\ last.parent_id = None
    /\ "child" \in DOMAIN last.res
    /\ xray.chains[last.res.child].parent_id = SegmentId(1)
    /\ \E e \in history.logged :
          e.chain = last.chain /\ e.id = SegmentId(2) /\ e.call > 1
    /\ \E e, f \in history.logged :
          e.chain = last.chain /\ f.chain = last.chain
              /\ e.id = SegmentId(1) /\ f.id = SegmentId(1) /\ e.call # f.call

\* C38 witness: the parent_id passed to a fork of a child chain wins over
\* the segment logged last on the child
ExplicitParentWitness ==
    /\ last.op = "fork" /\ last.parent_id = SegmentId(1)
    /\ "child" \in DOMAIN last.res
    /\ xray.chains[last.res.child].parent_id = SegmentId(1)
    /\ xray.chains[last.chain].last_segment_id = SegmentId(2)
    /\ xray.chains[last.chain].parent_id = SegmentId(1)

\* The places of the segments the client received: <<flush, position>>
Places ==
    {p \in (1..Len(xray.client)) \X (1..MaxSegments) :
        p[2] <= Len(xray.client[p[1]])}

\* The segment with that id is in the buffer of the shared chain
Buffered(id) == \E k \in 1..Len(Shared.segments) : Shared.segments[k].id = id

\* The segment with that id was submitted by a flush
Submitted(id) == \E p \in Places : xray.client[p[1]][p[2]].id = id

\* C39: of the segments the client received from the flushes of the threads,
\* whether called directly or by log at the backlog, no two are the same
\* segment: no segment was submitted by two flushes, nor twice by one.
NoSegmentSubmittedTwice ==
    \A p, q \in Places :
        xray.client[p[1]][p[2]].id = xray.client[q[1]][q[2]].id => p = q

\* C39 witness: two flushes have submitted segments, the thread of the
\* second still holds the lock, and the other thread waits for it
FlushWaitsWitness ==
    /\ Len(xray.client) = 2
    /\ \E t, u \in Threads :
          /\ threads[t].pc \in {"clear", "release"}
          /\ Shared.flush_lock = [held |-> t]
          /\ threads[u].pc = "acquire"

\* C40: every segment log has appended is in the buffer or was submitted
\* by a flush; hence, once the threads are idle and a flush has returned
\* leaving the buffer empty, every segment logged was submitted.
NoSegmentLost ==
    \A e \in history.logged : Buffered(e.id) \/ Submitted(e.id)

====
